---- MODULE Spec2Model ----
(***************************************************************************)
(* Model of the loopbox-web video editor draft (segments + image groups)  *)
(* and of the reconciliation functions of src/lib/video-drop.js that the  *)
(* editor applies to it.                                                   *)
(*                                                                         *)
(* Conventions: segment indices and array indices are 0-based as in the    *)
(* source; a JavaScript array is a TLA+ sequence, so element k of the      *)
(* array is seq[k + 1].                                                    *)
(***************************************************************************)
EXTENDS Integers, Sequences, FiniteSets, TLC

(***************************************************************************)
(* Bounds of the exploration.                                              *)
(***************************************************************************)
\* MaxSegments: segments of the editor's draft.
\* MaxCallSegments: segmentsLength of a direct call of a reconciliation
\*   function.
MaxSegments == 3

MaxCallSegments == 4

\* The longest item array passed to moveItemByIndex / moveItemByIndexReplace.
MaxItems == 4

\* The longest draft edited while requests to the backend are in flight.
MaxSyncSegments == 1

\* The longest draft built by drops during the drag gestures.
MaxDragSegments == 2

(***************************************************************************)
(* Catalog loaded by the editor: music versions (with their duration) and  *)
(* image versions (with the image they belong to).  "mv-x" and "iv-x" are  *)
(* ids carried by a drag payload that are not in the catalog.              *)
(***************************************************************************)
musicVersions ==
    { [id |-> "mv-1", musicId |-> "m-1", durationSeconds |-> 2] }

imageVersions ==
    { [id |-> "iv-1", imageId |-> "i-1"],
      [id |-> "iv-2", imageId |-> "i-2"] }

MusicVersionIds == { v.id : v \in musicVersions } \cup {"mv-x"}

ImageVersionIds == { v.id : v \in imageVersions } \cup {"iv-x"}

\* segments, imageGroups: the editor's draft (useState at video-editor.tsx
\*   902-903).
\* last: the handler that ran last and the toast it raised ("none" when it
\*   raised no toast).
\* call, results: a direct call of a reconciliation function (its
\*   arguments) and the values returned by the successive applications.
\* heap: the arrays and objects a direct call works on: objs[a] is the
\*   object at address a, arrs[r] the addresses held by the array r, and
\*   ret the array the last call returned (0 before the first call).
\* video: the video resource last received (its status), NoVideo before the
\*   first response.
\* isLoading, isSaving, isRendering: the editor's busy flags.
\* requests: the requests in flight: the loads (by their silent argument),
\*   the body of the update request, the render request, the status poll.
\* intervalId: the status poll's interval (null while none is set).
\* isMounted: isMountedRef.current.
\* lastPayload: the process-wide slot of src/lib/drag-payload.js.
\* gesture: the drag gesture in progress as the browser holds it: its
\*   phase, the payload written to the transfer at drag-start, and the
\*   drop target whose handler is about to run.
\* preview: the editor's visual drag state (dragging indices, drop hint,
\*   drop preview, pending preview and scheduled animation frame).
VARIABLES segments, imageGroups, last, call, results, heap,
          video, isLoading, isSaving, isRendering, requests, intervalId, isMounted,
          lastPayload, gesture, preview

syncVars == <<video, isLoading, isSaving, isRendering, requests, intervalId, isMounted>>

dragVars == <<lastPayload, gesture, preview>>

vars == <<segments, imageGroups, last, call, results, heap, syncVars, dragVars>>

(***************************************************************************)
(* JavaScript helpers.                                                     *)
(***************************************************************************)
Max(a, b) == IF a >= b THEN a ELSE b

Min(a, b) == IF a <= b THEN a ELSE b

\* Array.prototype.findIndex: 0-based index of the first element satisfying
\* P, or -1.
FindIndex(arr, P(_)) ==
    IF \E k \in 1..Len(arr) : P(arr[k])
    THEN (CHOOSE k \in 1..Len(arr) :
              P(arr[k]) /\ \A j \in 1..(k - 1) : ~P(arr[j])) - 1
    ELSE -1

\* Array.prototype.filter with a predicate on the 0-based index.
RECURSIVE FilterByIndex(_, _, _)
FilterByIndex(arr, Keep(_), k) ==
    IF k >= Len(arr) THEN <<>>
    ELSE (IF Keep(k) THEN <<arr[k + 1]>> ELSE <<>>) \o FilterByIndex(arr, Keep, k + 1)

\* Relative start index of slice/splice: negative counts from the end,
\* then clamped to [0, length].
RelIndex(len, idx) == IF idx < 0 THEN Max(len + idx, 0) ELSE Min(idx, len)

\* Array.prototype.slice(from, to).
Slice(arr, from, to) ==
    LET f == RelIndex(Len(arr), from)
        t == RelIndex(Len(arr), to)
    IN  IF f >= t THEN <<>> ELSE SubSeq(arr, f + 1, t)

\* Array.prototype.splice(start, deleteCount, ...items): the array left
\* after the splice.
Splice(arr, start, deleteCount, items) ==
    LET s == RelIndex(Len(arr), start)
        d == Max(0, Min(deleteCount, Len(arr) - s))
    IN  SubSeq(arr, 1, s) \o items \o SubSeq(arr, s + d + 1, Len(arr))

(***************************************************************************)
(* src/lib/video-drop.js: image-group range reconciliation.                *)
(***************************************************************************)
\* Fault variant: the upper bound test is off by one.
isInvalidSegmentIndex_offByOne(segmentIndex, segmentsLength) ==
    segmentIndex < 0 \/ segmentIndex > segmentsLength

\* "segmentIndex < 0 || segmentIndex >= segmentsLength"
isInvalidSegmentIndex(segmentIndex, segmentsLength) ==
    segmentIndex < 0 \/ segmentIndex >= segmentsLength

\* Fault variant: the last index of a range is not seen as covered.
findOverlapping_strictEnd(groups, segmentIndex) ==
    LET Covers(group) ==
            /\ segmentIndex >= group.segmentIndexStart
            /\ segmentIndex < group.segmentIndexEnd
    IN  FindIndex(groups, Covers)

\* Fault variant: the first index of a range is not seen as covered.
findOverlapping_strictStart(groups, segmentIndex) ==
    LET Covers(group) ==
            /\ segmentIndex > group.segmentIndexStart
            /\ segmentIndex <= group.segmentIndexEnd
    IN  FindIndex(groups, Covers)

\* Index of the group that "groups.find" returns (the first one whose range
\* contains segmentIndex), or -1.
findOverlapping(groups, segmentIndex) ==
    LET Covers(group) ==
            /\ segmentIndex >= group.segmentIndexStart
            /\ segmentIndex <= group.segmentIndexEnd
    IN  FindIndex(groups, Covers)

findLeftIndex(groups, segmentIndex, imageVersionId) ==
    LET IsLeft(group) ==
            /\ group.imageVersionId = imageVersionId
            /\ group.segmentIndexEnd = segmentIndex - 1
    IN  FindIndex(groups, IsLeft)

\* Fault variant: the right neighbour is taken whatever its version.
findRightIndex_anyVersion(groups, segmentIndex, imageVersionId) ==
    LET IsRight(group) == group.segmentIndexStart = segmentIndex + 1
    IN  FindIndex(groups, IsRight)

findRightIndex(groups, segmentIndex, imageVersionId) ==
    LET IsRight(group) ==
            /\ group.imageVersionId = imageVersionId
            /\ group.segmentIndexStart = segmentIndex + 1
    IN  FindIndex(groups, IsRight)

\* Fault variant: only the left neighbour is spliced out.
mergeBothSides_keepRight(groups, leftIndex, rightIndex, imageVersionId, imageId) ==
    LET left == groups[leftIndex + 1]
        right == groups[rightIndex + 1]
        Keep(idx) == idx # leftIndex
        next == FilterByIndex(groups, Keep, 0)
    IN  Append(next,
               [imageVersionId |-> imageVersionId,
                imageId |-> imageId,
                segmentIndexStart |-> left.segmentIndexStart,
                segmentIndexEnd |-> right.segmentIndexEnd])

\* Both neighbours: splice both out, push one group left.start..right.end.
mergeBothSides(groups, leftIndex, rightIndex, imageVersionId, imageId) ==
    LET left == groups[leftIndex + 1]
        right == groups[rightIndex + 1]
        Keep(idx) == idx # leftIndex /\ idx # rightIndex
        next == FilterByIndex(groups, Keep, 0)
    IN  Append(next,
               [imageVersionId |-> imageVersionId,
                imageId |-> imageId,
                segmentIndexStart |-> left.segmentIndexStart,
                segmentIndexEnd |-> right.segmentIndexEnd])

extendLeft(groups, leftIndex, segmentIndex) ==
    [k \in 1..Len(groups) |->
        IF k - 1 = leftIndex
        THEN [groups[k] EXCEPT !.segmentIndexEnd = segmentIndex]
        ELSE groups[k]]

extendRight(groups, rightIndex, segmentIndex) ==
    [k \in 1..Len(groups) |->
        IF k - 1 = rightIndex
        THEN [groups[k] EXCEPT !.segmentIndexStart = segmentIndex]
        ELSE groups[k]]

appendSingleton(groups, segmentIndex, imageVersionId, imageId) ==
    Append(groups,
           [imageVersionId |-> imageVersionId,
            imageId |-> imageId,
            segmentIndexStart |-> segmentIndex,
            segmentIndexEnd |-> segmentIndex])

\* The result object carries "error" or "merged", never both.
mergeImageGroupsOnInsert(groups, segmentIndex, imageVersionId, imageId, segmentsLength) ==
    IF isInvalidSegmentIndex(segmentIndex, segmentsLength)
    THEN [groups |-> groups, error |-> "Segment range is invalid"]
    ELSE
    LET overlapping == findOverlapping(groups, segmentIndex)
        leftIndex == findLeftIndex(groups, segmentIndex, imageVersionId)
        rightIndex == findRightIndex(groups, segmentIndex, imageVersionId)
    IN  IF overlapping >= 0
        THEN IF groups[overlapping + 1].imageVersionId = imageVersionId
             THEN [groups |-> groups, merged |-> TRUE]
             ELSE [groups |-> groups, error |-> "Image group overlaps an existing range"]
        ELSE IF leftIndex >= 0 /\ rightIndex >= 0 /\ leftIndex # rightIndex
        THEN [groups |-> mergeBothSides(groups, leftIndex, rightIndex,
                                        imageVersionId, imageId),
              merged |-> TRUE]
        ELSE IF leftIndex >= 0
        THEN [groups |-> extendLeft(groups, leftIndex, segmentIndex), merged |-> TRUE]
        ELSE IF rightIndex >= 0
        THEN [groups |-> extendRight(groups, rightIndex, segmentIndex), merged |-> TRUE]
        ELSE [groups |-> appendSingleton(groups, segmentIndex, imageVersionId, imageId),
              merged |-> FALSE]

(***************************************************************************)
(* src/lib/video-drop.js: list reordering.                                 *)
(***************************************************************************)
\* Fault variant: the target is not adjusted for the removal.
moveItemByIndex_noShift(items, fromIndex, toIndex) ==
    IF fromIndex = toIndex THEN items
    ELSE IF fromIndex < 0 \/ fromIndex >= Len(items) THEN items
    ELSE LET targetIndex == Max(0, Min(Len(items), toIndex))
             moved == items[fromIndex + 1]
             next == Splice(items, fromIndex, 1, <<>>)
         IN  Splice(next, targetIndex, 0, <<moved>>)

moveItemByIndex(items, fromIndex, toIndex) ==
    IF fromIndex = toIndex THEN items
    ELSE IF fromIndex < 0 \/ fromIndex >= Len(items) THEN items
    ELSE LET targetIndex0 == Max(0, Min(Len(items), toIndex))
             moved == items[fromIndex + 1]
             next == Splice(items, fromIndex, 1, <<>>)
             targetIndex == IF fromIndex < targetIndex0
                            THEN targetIndex0 - 1 ELSE targetIndex0
         IN  Splice(next, targetIndex, 0, <<moved>>)

\* Fault variant: the target is adjusted as in moveItemByIndex.
moveItemByIndexReplace_shift(items, fromIndex, toIndex) ==
    IF fromIndex = toIndex THEN items
    ELSE IF fromIndex < 0 \/ fromIndex >= Len(items) THEN items
    ELSE LET targetIndex0 == Max(0, Min(Len(items) - 1, toIndex))
             moved == items[fromIndex + 1]
             next == Splice(items, fromIndex, 1, <<>>)
             targetIndex == IF fromIndex < targetIndex0
                            THEN targetIndex0 - 1 ELSE targetIndex0
         IN  Splice(next, targetIndex, 0, <<moved>>)

moveItemByIndexReplace(items, fromIndex, toIndex) ==
    IF fromIndex = toIndex THEN items
    ELSE IF fromIndex < 0 \/ fromIndex >= Len(items) THEN items
    ELSE LET targetIndex == Max(0, Min(Len(items) - 1, toIndex))
             moved == items[fromIndex + 1]
             next == Splice(items, fromIndex, 1, <<>>)
         IN  Splice(next, targetIndex, 0, <<moved>>)

(***************************************************************************)
(* src/lib/video-drop.js: relocation of an image group through a slot      *)
(* array.  A slot holds the array index of the owning group, or null.      *)
(***************************************************************************)
null == -1

\* slots after "groups.forEach": a later group overwrites an earlier one.
buildSlots(groups, segmentsLength) ==
    [p \in 1..segmentsLength |->
        LET i == p - 1
            owners == { idx \in 0..(Len(groups) - 1) :
                          /\ groups[idx + 1].segmentIndexStart <= i
                          /\ i <= groups[idx + 1].segmentIndexEnd }
        IN  IF owners = {} THEN null
            ELSE CHOOSE idx \in owners : \A other \in owners : other <= idx]

\* The scan "for (let i = 0; i <= slots.length; i += 1)" from position i
\* with the loop state (currentIdx, startIndex, rebuilt).
RECURSIVE rebuildFrom(_, _, _, _, _, _)
rebuildFrom(groups, slots, i, currentIdx, startIndex, rebuilt) ==
    IF i > Len(slots) THEN rebuilt
    ELSE LET slot == IF i < Len(slots) THEN slots[i + 1] ELSE null
         IN  IF slot # currentIdx
             THEN LET source == groups[currentIdx + 1]
                      pushed ==
                          IF currentIdx # null /\ startIndex # null
                          THEN Append(rebuilt,
                                   [imageVersionId |-> source.imageVersionId,
                                    imageId |-> source.imageId,
                                    segmentIndexStart |-> startIndex,
                                    segmentIndexEnd |-> i - 1])
                          ELSE rebuilt
                  IN  rebuildFrom(groups, slots, i + 1, slot,
                                  IF slot # null THEN i ELSE null, pushed)
             ELSE rebuildFrom(groups, slots, i + 1, currentIdx, startIndex, rebuilt)

\* Fault variant: the reduce never coalesces.
coalesceStep_never(acc, group) == Append(acc, group)

\* One step of "rebuilt.reduce((acc, group) => ...)".
coalesceStep(acc, group) ==
    IF Len(acc) > 0 /\ acc[Len(acc)].imageVersionId = group.imageVersionId
    THEN [acc EXCEPT ![Len(acc)].segmentIndexEnd = group.segmentIndexEnd]
    ELSE Append(acc, group)

RECURSIVE coalesce(_, _)
coalesce(acc, rebuilt) ==
    IF rebuilt = <<>> THEN acc
    ELSE coalesce(coalesceStep(acc, Head(rebuilt)), Tail(rebuilt))

\* Fault variant: the requested start is not clamped at 0.
clampStart_noLowerBound(targetStart, length, segmentsLength) ==
    LET maxStart == Max(0, segmentsLength - length)
    IN  Min(maxStart, targetStart)

\* "maxStart" and "nextStart": the requested start clamped to
\* [0, segmentsLength - length].
clampStart(targetStart, length, segmentsLength) ==
    LET maxStart == Max(0, segmentsLength - length)
    IN  Max(0, Min(maxStart, targetStart))

moveImageGroupsBySlot(groups, groupIndex, targetStart, segmentsLength) ==
    IF segmentsLength <= 0 THEN groups
    ELSE IF groupIndex < 0 \/ groupIndex >= Len(groups) THEN groups
    ELSE LET active == groups[groupIndex + 1]
             length == Max(1, active.segmentIndexEnd - active.segmentIndexStart + 1)
             nextStart == clampStart(targetStart, length, segmentsLength)
             slots0 == buildSlots(groups, segmentsLength)
             block == Slice(slots0, active.segmentIndexStart,
                            active.segmentIndexStart + length)
             slots1 == Splice(slots0, active.segmentIndexStart, length, <<>>)
             slots == Splice(slots1, nextStart, 0, block)
             rebuilt == rebuildFrom(groups, slots, 0, null, null, <<>>)
         IN  coalesce(<<>>, rebuilt)

(***************************************************************************)
(* The same functions on a heap, where arrays and group objects have an    *)
(* identity: what each function allocates, which objects its result shares *)
(* with its argument, and which objects it writes.  Each operator returns  *)
(* the heap after the call, with ret the array it returned.                *)
(***************************************************************************)
\* The value of the array at ref.
Deref(h, ref) == [k \in 1..Len(h.arrs[ref]) |-> h.objs[h.arrs[ref][k]]]

\* A new object; its address is Len(objs) of the heap returned.
allocObject(h, value) == [h EXCEPT !.objs = Append(@, value)]

\* A new array; its reference is Len(arrs) of the heap returned.
allocArray(h, refs) == [h EXCEPT !.arrs = Append(@, refs)]

returning(h, ref) == [h EXCEPT !.ret = ref]

\* "groups.filter(...)" then "next.push({...})".
mergeBothSidesHeap(h, groupsRef, leftIndex, rightIndex, imageVersionId, imageId) ==
    LET refs == h.arrs[groupsRef]
        left == h.objs[refs[leftIndex + 1]]
        right == h.objs[refs[rightIndex + 1]]
        Keep(idx) == idx # leftIndex /\ idx # rightIndex
        next == FilterByIndex(refs, Keep, 0)
        h1 == allocObject(h, [imageVersionId |-> imageVersionId,
                              imageId |-> imageId,
                              segmentIndexStart |-> left.segmentIndexStart,
                              segmentIndexEnd |-> right.segmentIndexEnd])
        h2 == allocArray(h1, Append(next, Len(h1.objs)))
    IN  returning(h2, Len(h2.arrs))

\* Fault variant: the left neighbour is written in place.
extendLeftHeap_inPlace(h, groupsRef, leftIndex, segmentIndex) ==
    LET refs == h.arrs[groupsRef]
        h1 == [h EXCEPT !.objs[refs[leftIndex + 1]].segmentIndexEnd = segmentIndex]
        h2 == allocArray(h1, refs)
    IN  returning(h2, Len(h2.arrs))

\* "groups.map(...)": a new array; a copy "{ ...group, segmentIndexEnd }" at
\* leftIndex, the argument's own objects elsewhere.
extendLeftHeap(h, groupsRef, leftIndex, segmentIndex) ==
    LET refs == h.arrs[groupsRef]
        h1 == allocObject(h, [h.objs[refs[leftIndex + 1]] EXCEPT
                                 !.segmentIndexEnd = segmentIndex])
        h2 == allocArray(h1, [refs EXCEPT ![leftIndex + 1] = Len(h1.objs)])
    IN  returning(h2, Len(h2.arrs))

extendRightHeap(h, groupsRef, rightIndex, segmentIndex) ==
    LET refs == h.arrs[groupsRef]
        h1 == allocObject(h, [h.objs[refs[rightIndex + 1]] EXCEPT
                                 !.segmentIndexStart = segmentIndex])
        h2 == allocArray(h1, [refs EXCEPT ![rightIndex + 1] = Len(h1.objs)])
    IN  returning(h2, Len(h2.arrs))

\* "[...groups, {...}]".
appendSingletonHeap(h, groupsRef, segmentIndex, imageVersionId, imageId) ==
    LET h1 == allocObject(h, [imageVersionId |-> imageVersionId,
                              imageId |-> imageId,
                              segmentIndexStart |-> segmentIndex,
                              segmentIndexEnd |-> segmentIndex])
        h2 == allocArray(h1, Append(h.arrs[groupsRef], Len(h1.objs)))
    IN  returning(h2, Len(h2.arrs))

mergeImageGroupsOnInsertHeap(h, groupsRef, segmentIndex, imageVersionId, imageId, segmentsLength) ==
    IF isInvalidSegmentIndex(segmentIndex, segmentsLength)
    THEN returning(h, groupsRef)
    ELSE
    LET groups == Deref(h, groupsRef)
        overlapping == findOverlapping(groups, segmentIndex)
        leftIndex == findLeftIndex(groups, segmentIndex, imageVersionId)
        rightIndex == findRightIndex(groups, segmentIndex, imageVersionId)
    IN  IF overlapping >= 0
        THEN returning(h, groupsRef)
        ELSE IF leftIndex >= 0 /\ rightIndex >= 0 /\ leftIndex # rightIndex
        THEN mergeBothSidesHeap(h, groupsRef, leftIndex, rightIndex,
                                imageVersionId, imageId)
        ELSE IF leftIndex >= 0
        THEN extendLeftHeap(h, groupsRef, leftIndex, segmentIndex)
        ELSE IF rightIndex >= 0
        THEN extendRightHeap(h, groupsRef, rightIndex, segmentIndex)
        ELSE appendSingletonHeap(h, groupsRef, segmentIndex, imageVersionId, imageId)

\* "next = [...items]" and the two splices on next; the argument itself is
\* returned when nothing moves.
moveItemByIndexHeap(h, itemsRef, fromIndex, toIndex) ==
    LET refs == h.arrs[itemsRef]
    IN  IF fromIndex = toIndex \/ fromIndex < 0 \/ fromIndex >= Len(refs)
        THEN returning(h, itemsRef)
        ELSE LET h1 == allocArray(h, moveItemByIndex(refs, fromIndex, toIndex))
             IN  returning(h1, Len(h1.arrs))

moveItemByIndexReplaceHeap(h, itemsRef, fromIndex, toIndex) ==
    LET refs == h.arrs[itemsRef]
    IN  IF fromIndex = toIndex \/ fromIndex < 0 \/ fromIndex >= Len(refs)
        THEN returning(h, itemsRef)
        ELSE LET h1 == allocArray(h, moveItemByIndexReplace(refs, fromIndex, toIndex))
             IN  returning(h1, Len(h1.arrs))

\* "rebuilt.push({...})": one new object per run of slots.
rebuiltObjectsHeap(h, groups, slots) ==
    LET rebuilt == rebuildFrom(groups, slots, 0, null, null, <<>>)
    IN  [heap |-> [h EXCEPT !.objs = @ \o rebuilt],
         refs |-> [k \in 1..Len(rebuilt) |-> Len(h.objs) + k]]

\* One step of the reduce on the array acc: a write to the last object of
\* acc, or a push of a copy "{ ...group }".
coalesceStepHeap(h, accRef, groupAddr) ==
    LET acc == h.arrs[accRef]
        group == h.objs[groupAddr]
    IN  IF Len(acc) > 0 /\ h.objs[acc[Len(acc)]].imageVersionId = group.imageVersionId
        THEN [h EXCEPT !.objs[acc[Len(acc)]].segmentIndexEnd = group.segmentIndexEnd]
        ELSE LET h1 == allocObject(h, group)
             IN  [h1 EXCEPT !.arrs[accRef] = Append(@, Len(h1.objs))]

RECURSIVE coalesceHeap(_, _, _)
coalesceHeap(h, accRef, rebuiltRefs) ==
    IF rebuiltRefs = <<>> THEN h
    ELSE coalesceHeap(coalesceStepHeap(h, accRef, Head(rebuiltRefs)), accRef,
                      Tail(rebuiltRefs))

moveImageGroupsBySlotHeap(h, groupsRef, groupIndex, targetStart, segmentsLength) ==
    IF segmentsLength <= 0 THEN returning(h, groupsRef)
    ELSE IF groupIndex < 0 \/ groupIndex >= Len(h.arrs[groupsRef])
    THEN returning(h, groupsRef)
    ELSE LET groups == Deref(h, groupsRef)
             active == groups[groupIndex + 1]
             length == Max(1, active.segmentIndexEnd - active.segmentIndexStart + 1)
             nextStart == clampStart(targetStart, length, segmentsLength)
             slots0 == buildSlots(groups, segmentsLength)
             block == Slice(slots0, active.segmentIndexStart,
                            active.segmentIndexStart + length)
             slots1 == Splice(slots0, active.segmentIndexStart, length, <<>>)
             slots == Splice(slots1, nextStart, 0, block)
             built == rebuiltObjectsHeap(h, groups, slots)
             h1 == allocArray(built.heap, built.refs)
             h2 == allocArray(h1, <<>>)
             h3 == coalesceHeap(h2, Len(h2.arrs), built.refs)
         IN  returning(h3, Len(h2.arrs))

(***************************************************************************)
(* src/components/video-editor.tsx: the editor's handlers on the draft.    *)
(***************************************************************************)
NaN == -1000

NoToast == "none"

Handler(op, toast) == [op |-> op, toast |-> toast]

findMusicVersion(versionId) == { item \in musicVersions : item.id = versionId }

findImageVersion(versionId) == { item \in imageVersions : item.id = versionId }

DraftSegment(version) ==
    [musicVersionId |-> version.id,
     musicId |-> version.musicId,
     durationSeconds |-> version.durationSeconds]

\* Fault variant: only the start of the range is tested against the groups.
isRangeAvailable_startOnly(start, end) ==
    ~ \E k \in 1..Len(imageGroups) :
        /\ imageGroups[k].segmentIndexStart <= start
        /\ start <= imageGroups[k].segmentIndexEnd

isRangeAvailable(start, end) ==
    ~ \E k \in 1..Len(imageGroups) :
        ~ (end < imageGroups[k].segmentIndexStart \/ start > imageGroups[k].segmentIndexEnd)

handleAddSegment ==
    \E selectedMusicVersionId \in { v.id : v \in musicVersions } \cup {""} :
        /\ Len(segments) < MaxSegments
        /\ IF findMusicVersion(selectedMusicVersionId) = {}
           THEN /\ last' = Handler("handleAddSegment", "Select a music version to add")
                /\ UNCHANGED segments
           ELSE LET version == CHOOSE item \in findMusicVersion(selectedMusicVersionId) : TRUE
                IN  /\ segments' = Append(segments, DraftSegment(version))
                    /\ last' = Handler("handleAddSegment", NoToast)
        /\ UNCHANGED <<imageGroups, call, results, heap, syncVars, dragVars>>

\* direction: -1 is "up", 1 is "down".
moveSegment ==
    \E index \in 0..(Len(segments) - 1), direction \in {-1, 1} :
        LET target == index + direction
        IN  /\ segments' =
                  IF target < 0 \/ target >= Len(segments) THEN segments
                  ELSE [segments EXCEPT ![index + 1] = segments[target + 1],
                                        ![target + 1] = segments[index + 1]]
            /\ last' = Handler("moveSegment", NoToast)
            /\ UNCHANGED <<imageGroups, call, results, heap, syncVars, dragVars>>

moveSegmentByIndex ==
    \E fromIndex \in (-1)..Len(segments), toIndex \in (-1)..(Len(segments) + 1),
       mode \in {"insert", "replace"} :
        /\ segments' = IF mode = "replace"
                       THEN moveItemByIndexReplace(segments, fromIndex, toIndex)
                       ELSE moveItemByIndex(segments, fromIndex, toIndex)
        /\ last' = Handler("moveSegmentByIndex", NoToast)
        /\ UNCHANGED <<imageGroups, call, results, heap, syncVars, dragVars>>

\* Fault variant: the groups after the removed segment are not shifted.
removeSegmentGroups_noShift(prev, index) ==
    LET Keep(idx) ==
            ~ (index >= prev[idx + 1].segmentIndexStart /\ index <= prev[idx + 1].segmentIndexEnd)
    IN  FilterByIndex(prev, Keep, 0)

removeSegmentGroups(prev, index) ==
    LET Keep(idx) ==
            ~ (index >= prev[idx + 1].segmentIndexStart /\ index <= prev[idx + 1].segmentIndexEnd)
        kept == FilterByIndex(prev, Keep, 0)
    IN  [k \in 1..Len(kept) |->
            [kept[k] EXCEPT
                !.segmentIndexStart = IF @ > index THEN @ - 1 ELSE @,
                !.segmentIndexEnd = IF @ > index THEN @ - 1 ELSE @]]

removeSegment ==
    \E index \in 0..(Len(segments) - 1) :
        /\ segments' = Splice(segments, index, 1, <<>>)
        /\ imageGroups' = removeSegmentGroups(imageGroups, index)
        /\ last' = Handler("removeSegment", NoToast)
        /\ UNCHANGED <<call, results, heap, syncVars, dragVars>>

addSegmentByVersion ==
    \E versionId \in MusicVersionIds, insertIndex \in 0..Len(segments) :
        /\ Len(segments) < MaxSegments
        /\ IF findMusicVersion(versionId) = {}
           THEN /\ last' = Handler("addSegmentByVersion", "Music version not found")
                /\ UNCHANGED segments
           ELSE LET version == CHOOSE item \in findMusicVersion(versionId) : TRUE
                IN  /\ segments' = Splice(segments, insertIndex, 0, <<DraftSegment(version)>>)
                    /\ last' = Handler("addSegmentByVersion", NoToast)
        /\ UNCHANGED <<imageGroups, call, results, heap, syncVars, dragVars>>

\* addImageGroupRange on the current draft: the image groups it leaves and
\* the toast it raises.
addImageGroupRange(versionId, start, end) ==
    IF start < 0 \/ end < 0 \/ start > end \/ end >= Len(segments)
    THEN [imageGroups |-> imageGroups, toast |-> "Segment range is invalid"]
    ELSE IF ~isRangeAvailable(start, end)
    THEN [imageGroups |-> imageGroups, toast |-> "Image group overlaps an existing range"]
    ELSE IF findImageVersion(versionId) = {}
    THEN [imageGroups |-> imageGroups, toast |-> "Image version not found"]
    ELSE LET version == CHOOSE item \in findImageVersion(versionId) : TRUE
         IN  [imageGroups |-> Append(imageGroups,
                                  [imageVersionId |-> version.id,
                                   imageId |-> version.imageId,
                                   segmentIndexStart |-> start,
                                   segmentIndexEnd |-> end]),
              toast |-> NoToast]

\* The "Add" button of the image-group form.  start, end: Number.parseInt
\* of the two select fields; a field holds "" (NaN) or the index of a
\* segment that was listed when it was chosen.
handleAddImageGroup ==
    \E selectedImageVersionId \in { v.id : v \in imageVersions } \cup {""},
       start \in (0..(MaxSegments - 1)) \cup {NaN},
       end \in (0..(MaxSegments - 1)) \cup {NaN} :
        LET outcome ==
                IF findImageVersion(selectedImageVersionId) = {}
                THEN [imageGroups |-> imageGroups, toast |-> "Select an image version to map"]
                ELSE IF start = NaN \/ end = NaN
                THEN [imageGroups |-> imageGroups, toast |-> "Select start and end segments"]
                ELSE IF start < 0 \/ end < 0 \/ start > end \/ end >= Len(segments)
                THEN [imageGroups |-> imageGroups, toast |-> "Segment range is invalid"]
                ELSE IF ~isRangeAvailable(start, end)
                THEN [imageGroups |-> imageGroups,
                      toast |-> "Image group overlaps an existing range"]
                ELSE addImageGroupRange(selectedImageVersionId, start, end)
        IN  /\ imageGroups' = outcome.imageGroups
            /\ last' = Handler("handleAddImageGroup", outcome.toast)
            /\ UNCHANGED <<segments, call, results, heap, syncVars, dragVars>>

\* addImageGroupForSegment on the current draft: the image groups it leaves
\* and the toast it raises.
addImageGroupForSegment(versionId, segmentIndex) ==
    IF findImageVersion(versionId) = {}
    THEN [imageGroups |-> imageGroups, toast |-> "Image version not found"]
    ELSE LET version == CHOOSE item \in findImageVersion(versionId) : TRUE
             result == mergeImageGroupsOnInsert(imageGroups, segmentIndex,
                           version.id, version.imageId, Len(segments))
         IN  IF "error" \in DOMAIN result
             THEN [imageGroups |-> imageGroups, toast |-> result.error]
             ELSE [imageGroups |-> result.groups, toast |-> NoToast]

\* A drop of an image-version payload on the segment at segmentIndex.
handleDropImage ==
    \E payloadId \in ImageVersionIds, segmentIndex \in (-1)..Len(segments) :
        LET outcome == addImageGroupForSegment(payloadId, segmentIndex)
        IN  /\ imageGroups' = outcome.imageGroups
            /\ last' = Handler("handleDropImage", outcome.toast)
            /\ UNCHANGED <<segments, call, results, heap, syncVars, dragVars>>

removeImageGroup ==
    \E index \in 0..(Len(imageGroups) - 1) :
        /\ imageGroups' = LET Keep(i) == i # index IN FilterByIndex(imageGroups, Keep, 0)
        /\ last' = Handler("removeImageGroup", NoToast)
        /\ UNCHANGED <<segments, call, results, heap, syncVars, dragVars>>

moveImageGroupBySlot ==
    \E groupIndex \in (-1)..Len(imageGroups), targetStart \in (-1)..(Len(segments) + 1) :
        /\ imageGroups' = moveImageGroupsBySlot(imageGroups, groupIndex, targetStart, Len(segments))
        /\ last' = Handler("moveImageGroupBySlot", NoToast)
        /\ UNCHANGED <<segments, call, results, heap, syncVars, dragVars>>

NoCall == [fn |-> "none"]

NoHeap == [objs |-> <<>>, arrs |-> <<>>, ret |-> 0]

\* video before the first response: null, whose "video?.status" is undefined.
NoVideo == [status |-> "undefined"]

NoRequests == [loads |-> {}, save |-> <<>>, render |-> FALSE, poll |-> FALSE]

\* The empty slot: "let lastPayload = null".
NoPayload == [type |-> "null"]

NoGesture == [phase |-> "idle"]

NoPreview == [target |-> "null"]

\* The useState / useRef initial values of the visual drag state.
InitialPreview ==
    [draggingSegmentIndex |-> null,
     draggingImageGroupIndex |-> null,
     dropHint |-> "null",
     dropPreview |-> NoPreview,
     pendingDropPreview |-> NoPreview,
     dropPreviewRaf |-> FALSE,
     isDraggingImageVersion |-> FALSE]

\* No gesture in progress and nothing left of an earlier one.
DragAtRest ==
    /\ lastPayload = NoPayload
    /\ gesture = NoGesture
    /\ preview = InitialPreview

\* The editor showing the timeline of an empty video: the first load has
\* returned and nothing is in flight.
Init ==
    /\ segments = <<>>
    /\ imageGroups = <<>>
    /\ last = Handler("mount", NoToast)
    /\ call = NoCall
    /\ results = <<>>
    /\ heap = NoHeap
    /\ video = [status |-> "DRAFT"]
    /\ isLoading = FALSE
    /\ isSaving = FALSE
    /\ isRendering = FALSE
    /\ requests = NoRequests
    /\ intervalId = null
    /\ isMounted = TRUE
    /\ DragAtRest

Next ==
    \/ handleAddSegment
    \/ moveSegment
    \/ moveSegmentByIndex
    \/ removeSegment
    \/ addSegmentByVersion
    \/ handleAddImageGroup
    \/ handleDropImage
    \/ removeImageGroup
    \/ moveImageGroupBySlot

Spec == Init /\ [][Next]_vars

(***************************************************************************)
(* Consistency of an image-group collection over segmentCount segments.    *)
(***************************************************************************)
InBounds(groups, segmentCount) ==
    \A k \in 1..Len(groups) :
        /\ 0 <= groups[k].segmentIndexStart
        /\ groups[k].segmentIndexStart <= groups[k].segmentIndexEnd
        /\ groups[k].segmentIndexEnd <= segmentCount - 1

NonOverlapping(groups) ==
    \A j, k \in 1..Len(groups) :
        j # k =>
            \/ groups[j].segmentIndexEnd < groups[k].segmentIndexStart
            \/ groups[k].segmentIndexEnd < groups[j].segmentIndexStart

Consistent(groups, segmentCount) ==
    InBounds(groups, segmentCount) /\ NonOverlapping(groups)

\* C1: every draft reachable from the empty draft through the editor's
\* operations keeps each image group within [0, segmentCount-1] with
\* start <= end, and no two groups share a segment index.
C1_DraftConsistent == Consistent(imageGroups, Len(segments))

C1_Witness ==
    /\ last.op = "moveImageGroupBySlot"
    /\ Len(segments) = MaxSegments
    /\ Len(imageGroups) >= 2

(***************************************************************************)
(* Direct calls of the reconciliation functions: the arguments are drawn   *)
(* from the consistent collections over at most MaxCallSegments segments,  *)
(* the function is applied, and (for the single-index insert) applied      *)
(* again to the collection it returned.                                    *)
(***************************************************************************)
AllGroups(segmentCount) ==
    { [imageVersionId |-> v.id, imageId |-> v.imageId,
       segmentIndexStart |-> s, segmentIndexEnd |-> e] :
        v \in imageVersions,
        s \in 0..(segmentCount - 1),
        e \in 0..(segmentCount - 1) }

\* The consistent collections of exactly count groups.
RECURSIVE CollectionsOfLen(_, _)
CollectionsOfLen(segmentCount, count) ==
    IF count = 0 THEN { <<>> }
    ELSE { gs \in { Append(c, g) : c \in CollectionsOfLen(segmentCount, count - 1),
                                   g \in AllGroups(segmentCount) } :
              Consistent(gs, segmentCount) }

ConsistentCollections(segmentCount) ==
    UNION { CollectionsOfLen(segmentCount, count) : count \in 0..segmentCount }

\* The arguments of a call of mergeImageGroupsOnInsert: a consistent
\* collection, an index in or next to [0, segmentsLength) and a version.
MergeCall ==
    \E n \in 0..MaxCallSegments :
        \E gs \in ConsistentCollections(n), idx \in (-1)..n, v \in imageVersions :
            call = [fn |-> "mergeImageGroupsOnInsert", groups |-> gs,
                    segmentIndex |-> idx, imageVersionId |-> v.id,
                    imageId |-> v.imageId, segmentsLength |-> n]

\* The arguments of a call of moveImageGroupsBySlot: a consistent collection,
\* a group index in or next to the collection and any target start in or
\* next to [0, segmentsLength).
MoveCall ==
    \E n \in 0..MaxCallSegments :
        \E gs \in ConsistentCollections(n), ts \in (-1)..n :
            \E gi \in (-1)..Len(gs) :
                call = [fn |-> "moveImageGroupsBySlot", groups |-> gs,
                        groupIndex |-> gi, targetStart |-> ts, segmentsLength |-> n]

\* The arguments of a call of moveItemByIndex or moveItemByIndexReplace: an
\* array of distinct items and two indices in or next to the array.
Items == <<"a", "b", "c", "d", "e">>

ItemCall ==
    \E n \in 0..MaxItems :
        \E fn \in {"moveItemByIndex", "moveItemByIndexReplace"},
           from \in (-1)..n, to \in (-1)..(n + 1) :
            call = [fn |-> fn, items |-> SubSeq(Items, 1, n),
                    fromIndex |-> from, toIndex |-> to]

\* The argument array of the call: array 1, holding objects 1..Len(values).
InitialHeap(values) ==
    [objs |-> values, arrs |-> << [k \in 1..Len(values) |-> k] >>, ret |-> 0]

Argument == IF call.fn \in {"moveItemByIndex", "moveItemByIndexReplace"}
            THEN call.items ELSE call.groups

InitPure ==
    /\ segments = <<>>
    /\ imageGroups = <<>>
    /\ last = Handler("mount", NoToast)
    /\ (MergeCall \/ MoveCall \/ ItemCall)
    /\ results = <<>>
    /\ heap = InitialHeap(Argument)
    /\ video = NoVideo
    /\ isLoading = TRUE
    /\ isSaving = FALSE
    /\ isRendering = FALSE
    /\ requests = NoRequests
    /\ intervalId = null
    /\ isMounted = TRUE
    /\ DragAtRest

applyMerge ==
    /\ call.fn = "mergeImageGroupsOnInsert"
    /\ results = <<>>
    /\ results' = <<mergeImageGroupsOnInsert(call.groups, call.segmentIndex,
                        call.imageVersionId, call.imageId, call.segmentsLength)>>
    /\ heap' = mergeImageGroupsOnInsertHeap(heap, 1, call.segmentIndex,
                   call.imageVersionId, call.imageId, call.segmentsLength)
    /\ UNCHANGED <<segments, imageGroups, last, call, syncVars, dragVars>>

applyMergeAgain ==
    /\ call.fn = "mergeImageGroupsOnInsert"
    /\ Len(results) = 1
    /\ results' = Append(results,
                      mergeImageGroupsOnInsert(results[1].groups, call.segmentIndex,
                          call.imageVersionId, call.imageId, call.segmentsLength))
    /\ heap' = mergeImageGroupsOnInsertHeap(heap, heap.ret, call.segmentIndex,
                   call.imageVersionId, call.imageId, call.segmentsLength)
    /\ UNCHANGED <<segments, imageGroups, last, call, syncVars, dragVars>>

applyMove ==
    /\ call.fn = "moveImageGroupsBySlot"
    /\ results = <<>>
    /\ results' = <<moveImageGroupsBySlot(call.groups, call.groupIndex,
                        call.targetStart, call.segmentsLength)>>
    /\ heap' = moveImageGroupsBySlotHeap(heap, 1, call.groupIndex,
                   call.targetStart, call.segmentsLength)
    /\ UNCHANGED <<segments, imageGroups, last, call, syncVars, dragVars>>

applyMoveItem ==
    /\ call.fn = "moveItemByIndex"
    /\ results = <<>>
    /\ results' = <<moveItemByIndex(call.items, call.fromIndex, call.toIndex)>>
    /\ heap' = moveItemByIndexHeap(heap, 1, call.fromIndex, call.toIndex)
    /\ UNCHANGED <<segments, imageGroups, last, call, syncVars, dragVars>>

applyMoveItemReplace ==
    /\ call.fn = "moveItemByIndexReplace"
    /\ results = <<>>
    /\ results' = <<moveItemByIndexReplace(call.items, call.fromIndex, call.toIndex)>>
    /\ heap' = moveItemByIndexReplaceHeap(heap, 1, call.fromIndex, call.toIndex)
    /\ UNCHANGED <<segments, imageGroups, last, call, syncVars, dragVars>>

NextPure ==
    \/ applyMerge
    \/ applyMergeAgain
    \/ applyMove
    \/ applyMoveItem
    \/ applyMoveItemReplace

SpecPure == InitPure /\ [][NextPure]_vars

(***************************************************************************)
(* The editor and the backend: the load on mount and on the refresh        *)
(* events, handleSave, handleRender and the status poll, each split at its *)
(* await into the request and the handling of its outcome, interleaved     *)
(* with edits of a draft of at most MaxSyncSegments segments.              *)
(***************************************************************************)
Statuses == {"DRAFT", "RENDERING", "READY"}

\* A VideoSegment / VideoImageGroup as the backend returns it.
VideoSegment(version, order) ==
    [musicVersionId |-> version.id,
     musicId |-> version.musicId,
     durationSeconds |-> version.durationSeconds,
     order |-> order]

\* The videos a GET may return: any status, at most MaxSyncSegments segments
\* of catalog versions and a consistent collection of groups over them.
ServerVideos ==
    UNION { { [status |-> st,
               segments |-> [k \in 1..n |-> VideoSegment(CHOOSE v \in musicVersions : TRUE, k - 1)],
               imageGroups |-> gs] :
                st \in Statuses, gs \in ConsistentCollections(n) } :
            n \in 0..MaxSyncSegments }

\* "video.segments.map(...)" and "video.imageGroups.map(...)" of
\* loadEditorData and handleSave.
toDraftSegments(items) ==
    [k \in 1..Len(items) |->
        [musicVersionId |-> items[k].musicVersionId,
         musicId |-> items[k].musicId,
         durationSeconds |-> items[k].durationSeconds]]

toDraftImageGroups(items) ==
    [k \in 1..Len(items) |->
        [imageVersionId |-> items[k].imageVersionId,
         imageId |-> items[k].imageId,
         segmentIndexStart |-> items[k].segmentIndexStart,
         segmentIndexEnd |-> items[k].segmentIndexEnd]]

\* The body handleSave sends: the draft without its derived fields.
updateRequest(segmentItems, groupItems) ==
    [segments |-> [k \in 1..Len(segmentItems) |->
                      [musicVersionId |-> segmentItems[k].musicVersionId]],
     imageGroups |-> [k \in 1..Len(groupItems) |->
                      [imageVersionId |-> groupItems[k].imageVersionId,
                       segmentIndexStart |-> groupItems[k].segmentIndexStart,
                       segmentIndexEnd |-> groupItems[k].segmentIndexEnd]]]

\* The video the backend answers an update with: the body with the derived
\* fields reconstructed from the catalog.
storedVideo(body, status) ==
    [status |-> status,
     segments |-> [k \in 1..Len(body.segments) |->
                     VideoSegment(CHOOSE v \in musicVersions :
                                      v.id = body.segments[k].musicVersionId, k - 1)],
     imageGroups |-> [k \in 1..Len(body.imageGroups) |->
                        [imageVersionId |-> body.imageGroups[k].imageVersionId,
                         imageId |-> (CHOOSE v \in imageVersions :
                                         v.id = body.imageGroups[k].imageVersionId).imageId,
                         segmentIndexStart |-> body.imageGroups[k].segmentIndexStart,
                         segmentIndexEnd |-> body.imageGroups[k].segmentIndexEnd]]]

\* After construction: the mount effect has called loadEditorData().
InitSync ==
    /\ segments = <<>>
    /\ imageGroups = <<>>
    /\ last = Handler("mount", NoToast)
    /\ call = NoCall
    /\ results = <<>>
    /\ heap = NoHeap
    /\ video = NoVideo
    /\ isLoading = TRUE
    /\ isSaving = FALSE
    /\ isRendering = FALSE
    /\ requests = [NoRequests EXCEPT !.loads = {FALSE}]
    /\ intervalId = null
    /\ isMounted = TRUE
    /\ DragAtRest

\* Fault variant: the effect depends on video.status alone.
pollingEffect_statusOnly(nextRendering, nextStatus) ==
    IF nextStatus = video.status THEN intervalId
    ELSE IF ~nextRendering /\ nextStatus # "RENDERING" THEN null
    ELSE 1

\* The polling effect after a render that leaves isRendering and
\* video.status as given: it runs again when one of its dependencies
\* changed; its cleanup clears the interval and it sets a new one while a
\* render is requested or the video is RENDERING.
pollingEffect(nextRendering, nextStatus) ==
    IF nextRendering = isRendering /\ nextStatus = video.status THEN intervalId
    ELSE IF ~nextRendering /\ nextStatus # "RENDERING" THEN null
    ELSE 1

\* An edit of the draft while requests are in flight: a segment added or
\* removed, an image dropped on a segment or an image group removed.  The
\* timeline is rendered only once isLoading is false.
editDraft ==
    /\ isMounted
    /\ ~isLoading
    /\ (handleAddSegment \/ removeSegment \/ handleDropImage \/ removeImageGroup)
    /\ Len(segments') <= MaxSyncSegments

\* A refresh event (REFRESH_PROJECT_MUSIC, REFRESH_PROJECT_IMAGES,
\* MUSIC_LIST_UPDATED, IMAGE_LIST_UPDATED): loadEditorData(true).
handleRefresh ==
    /\ isMounted
    /\ TRUE \notin requests.loads
    /\ requests' = [requests EXCEPT !.loads = @ \cup {TRUE}]
    /\ UNCHANGED <<segments, imageGroups, last, call, results, heap,
                   video, isLoading, isSaving, isRendering, dragVars,
                   intervalId, isMounted>>

\* loadEditorData after its awaits, on success.
loadEditorDataReturns ==
    /\ isMounted
    /\ \E silent \in requests.loads, response \in ServerVideos :
        /\ video' = [status |-> response.status]
        /\ intervalId' = pollingEffect(isRendering, response.status)
        /\ segments' = toDraftSegments(response.segments)
        /\ imageGroups' = toDraftImageGroups(response.imageGroups)
        /\ isLoading' = IF silent THEN isLoading ELSE FALSE
        /\ requests' = [requests EXCEPT !.loads = @ \ {silent}]
        /\ last' = Handler("loadEditorData", NoToast)
        /\ UNCHANGED <<call, results, heap, isSaving, isRendering, dragVars,
                   isMounted>>

\* loadEditorData after its awaits, on a rejected request.
loadEditorDataFails ==
    /\ isMounted
    /\ \E silent \in requests.loads :
        /\ isLoading' = IF silent THEN isLoading ELSE FALSE
        /\ requests' = [requests EXCEPT !.loads = @ \ {silent}]
        /\ last' = Handler("loadEditorData", "Failed to load video editor data")
        /\ UNCHANGED <<segments, imageGroups, call, results, heap,
                       video, isSaving, isRendering, dragVars,
                   intervalId, isMounted>>

\* handleSave up to its await; the Save button is disabled while isSaving.
handleSave ==
    /\ isMounted
    /\ ~isLoading
    /\ ~isSaving
    /\ isSaving' = TRUE
    /\ requests' = [requests EXCEPT !.save = <<updateRequest(segments, imageGroups)>>]
    /\ UNCHANGED <<segments, imageGroups, last, call, results, heap,
                   video, isLoading, isRendering, dragVars,
                   intervalId, isMounted>>

\* handleSave after its await, on success.
handleSaveReturns ==
    /\ isMounted
    /\ requests.save # <<>>
    /\ \E status \in Statuses :
        LET response == storedVideo(requests.save[1], status)
        IN  /\ video' = [status |-> response.status]
            /\ intervalId' = pollingEffect(isRendering, response.status)
            /\ segments' = toDraftSegments(response.segments)
            /\ imageGroups' = toDraftImageGroups(response.imageGroups)
    /\ isSaving' = FALSE
    /\ requests' = [requests EXCEPT !.save = <<>>]
    /\ last' = Handler("handleSave", "Video timeline saved")
    /\ UNCHANGED <<call, results, heap, isLoading, isRendering, dragVars,
                   isMounted>>

\* Fault variant: the catch block falls back to an empty draft and leaves
\* the saving flag set.
handleSaveFails_resetsDraft ==
    /\ isMounted
    /\ requests.save # <<>>
    /\ segments' = <<>>
    /\ imageGroups' = <<>>
    /\ requests' = [requests EXCEPT !.save = <<>>]
    /\ last' = Handler("handleSave", "Failed to save video timeline")
    /\ UNCHANGED <<call, results, heap, video, isLoading, isSaving, isRendering, dragVars,
                   intervalId, isMounted>>

\* handleSave after its await, on a rejected request.
handleSaveFails ==
    /\ isMounted
    /\ requests.save # <<>>
    /\ isSaving' = FALSE
    /\ requests' = [requests EXCEPT !.save = <<>>]
    /\ last' = Handler("handleSave", "Failed to save video timeline")
    /\ UNCHANGED <<segments, imageGroups, call, results, heap,
                   video, isLoading, isRendering, dragVars,
                   intervalId, isMounted>>

\* handleRender up to its await; the Render button is disabled while
\* isRendering and while there is no segment.
handleRender ==
    /\ isMounted
    /\ ~isLoading
    /\ ~isRendering
    /\ Len(segments) # 0
    /\ isRendering' = TRUE
    /\ intervalId' = pollingEffect(TRUE, video.status)
    /\ requests' = [requests EXCEPT !.render = TRUE]
    /\ UNCHANGED <<segments, imageGroups, last, call, results, heap,
                   video, isLoading, isSaving, dragVars,
                   isMounted>>

handleRenderReturns ==
    /\ isMounted
    /\ requests.render
    /\ \E status \in Statuses :
          /\ video' = [status |-> status]
          /\ intervalId' = pollingEffect(FALSE, status)
    /\ isRendering' = FALSE
    /\ requests' = [requests EXCEPT !.render = FALSE]
    /\ last' = Handler("handleRender", "Video render requested")
    /\ UNCHANGED <<segments, imageGroups, call, results, heap,
                   isLoading, isSaving, dragVars,
                   isMounted>>

handleRenderFails ==
    /\ isMounted
    /\ requests.render
    /\ isRendering' = FALSE
    /\ intervalId' = pollingEffect(FALSE, video.status)
    /\ requests' = [requests EXCEPT !.render = FALSE]
    /\ last' = Handler("handleRender", "Failed to render video")
    /\ UNCHANGED <<segments, imageGroups, call, results, heap,
                   video, isLoading, isSaving, dragVars,
                   isMounted>>

\* A tick of the 5 s interval while it is set: videoApi.get is called.
pollStatus ==
    /\ isMounted
    /\ intervalId # null
    /\ ~requests.poll
    /\ requests' = [requests EXCEPT !.poll = TRUE]
    /\ UNCHANGED <<segments, imageGroups, last, call, results, heap,
                   video, isLoading, isSaving, isRendering, dragVars,
                   intervalId, isMounted>>

pollStatusReturns ==
    /\ isMounted
    /\ requests.poll
    /\ \E status \in Statuses :
          /\ video' = [status |-> status]
          /\ intervalId' = pollingEffect(isRendering, status)
    /\ requests' = [requests EXCEPT !.poll = FALSE]
    /\ UNCHANGED <<segments, imageGroups, last, call, results, heap,
                   isLoading, isSaving, isRendering, dragVars,
                   isMounted>>

pollStatusFails ==
    /\ isMounted
    /\ requests.poll
    /\ requests' = [requests EXCEPT !.poll = FALSE]
    /\ UNCHANGED <<segments, imageGroups, last, call, results, heap,
                   video, isLoading, isSaving, isRendering, dragVars,
                   intervalId, isMounted>>

\* The editor unmounts: the cleanups clear the interval, remove the refresh
\* listeners and reset isMountedRef.
unmount ==
    /\ isMounted
    /\ isMounted' = FALSE
    /\ intervalId' = null
    /\ UNCHANGED <<segments, imageGroups, last, call, results, heap,
                   video, isLoading, isSaving, isRendering, requests, dragVars>>

\* A request settles after the unmount: nothing of the editor is left to
\* update.
settleAfterUnmount ==
    /\ ~isMounted
    /\ \/ \E silent \in requests.loads : requests' = [requests EXCEPT !.loads = @ \ {silent}]
       \/ requests.save # <<>> /\ requests' = [requests EXCEPT !.save = <<>>]
       \/ requests.render /\ requests' = [requests EXCEPT !.render = FALSE]
       \/ requests.poll /\ requests' = [requests EXCEPT !.poll = FALSE]
    /\ UNCHANGED <<segments, imageGroups, last, call, results, heap,
                   video, isLoading, isSaving, isRendering, intervalId, isMounted, dragVars>>

NextSync ==
    \/ editDraft
    \/ handleRefresh
    \/ loadEditorDataReturns
    \/ loadEditorDataFails
    \/ handleSave
    \/ handleSaveReturns
    \/ handleSaveFails
    \/ handleRender
    \/ handleRenderReturns
    \/ handleRenderFails
    \/ pollStatus
    \/ pollStatusReturns
    \/ pollStatusFails
    \/ unmount
    \/ settleAfterUnmount

SpecSync == InitSync /\ [][NextSync]_vars

(***************************************************************************)
(* Drag gestures over the editor: the four draggable sources, three of the *)
(* drop targets (the music timeline, the image timeline and the image      *)
(* slots), the animation frame of the preview and the document listeners   *)
(* (dragend, drop in the capture phase, window blur).  A drop event is     *)
(* dispatched to the document's capture listener first and to the target's *)
(* onDrop after it; what the transfer yields at an event (getData is empty *)
(* while the browser protects the drag data) is an input of the event.     *)
(***************************************************************************)
Targets == {"music-timeline", "image-timeline", "image-group-slot"}

\* Number.parseInt(id, 10) on the ids a payload carries.
parseInt(id) ==
    CASE id = "0" -> 0
      [] id = "1" -> 1
      [] id = "2" -> 2
      [] id = "3" -> 3
      [] OTHER -> NaN

normalizeDragPayload(payload) ==
    IF payload = NoPayload \/ "type" \notin DOMAIN payload THEN NoPayload
    ELSE IF payload.type \in {"music-version", "image-version"} /\ "id" \in DOMAIN payload
    THEN [type |-> payload.type, id |-> payload.id]
    ELSE IF payload.type \in {"music-segment", "image-group"} /\ "index" \in DOMAIN payload
    THEN [type |-> payload.type, index |-> payload.index]
    ELSE IF payload.type \in {"music-segment", "image-group"} /\ "id" \in DOMAIN payload
            /\ parseInt(payload.id) # NaN
    THEN [type |-> payload.type, index |-> parseInt(payload.id)]
    ELSE NoPayload

\* parseDragPayload(event): the payload written at drag-start when the
\* transfer can be read at this event, nothing otherwise.
parseDragPayload(readable) ==
    IF readable THEN normalizeDragPayload(gesture.payload) ELSE NoPayload

\* "parseDragPayload(event) ?? normalizeDragPayload(getDragPayload())".
getPayloadFromEvent(readable) ==
    IF parseDragPayload(readable) # NoPayload
    THEN parseDragPayload(readable)
    ELSE normalizeDragPayload(lastPayload)

DropPreview(target, index, payload) ==
    [target |-> target, index |-> index, payload |-> payload]

setDropHintSafe(pv, next) == [pv EXCEPT !.dropHint = next]

setIsDraggingImageVersionSafe(pv, next) == [pv EXCEPT !.isDraggingImageVersion = next]

setDropPreviewSafe(pv, next) ==
    LET prev == pv.dropPreview
    IN  IF next = NoPreview THEN [pv EXCEPT !.dropPreview = NoPreview]
        ELSE IF /\ prev # NoPreview
                /\ prev.target = next.target
                /\ prev.index = next.index
                /\ prev.payload.type = next.payload.type
                /\ IF prev.payload.type \in {"music-version", "image-version"}
                   THEN prev.payload.id = next.payload.id
                   ELSE prev.payload.index = next.payload.index
        THEN pv
        ELSE [pv EXCEPT !.dropPreview = next]

scheduleDropPreview(pv, next) ==
    [pv EXCEPT !.pendingDropPreview = next, !.dropPreviewRaf = TRUE]

\* The two calls every handler makes when it shows nothing.
showNothing(pv) == scheduleDropPreview(setDropHintSafe(pv, "null"), NoPreview)

\* Fault variant: the slot is left as it is.
clearDragState_keepsPayload ==
    /\ lastPayload' = lastPayload
    /\ preview' = InitialPreview

clearDragState ==
    /\ lastPayload' = NoPayload
    /\ preview' = InitialPreview

getImageGroupTargetStart(centerIndex, length) ==
    IF Len(segments) = 0 THEN 0
    ELSE LET offset == length \div 2
             maxStart == Max(0, Len(segments) - length)
         IN  Max(0, Min(maxStart, centerIndex - offset))

\* The indices getSegmentIndexByPosition and getInsertIndexByPosition can
\* return for a pointer over the timeline.
SegmentIndexPositions == 0..Max(0, Len(segments) - 1)

InsertIndexPositions == 0..Len(segments)

\* A gesture in progress: what its drag-start wrote to the transfer and what
\* the slot held when the drag-start handler returned.
Dragging(payload, stored) == [phase |-> "dragging", payload |-> payload, stored |-> stored]

\* music-list.tsx handleDragStart.  A version is dragged in while the draft
\* has room for its segment.
musicVersionDragStart ==
    \E versionId \in MusicVersionIds :
        /\ gesture = NoGesture
        /\ Len(segments) < MaxDragSegments
        /\ lastPayload' = [type |-> "music-version", id |-> versionId]
        /\ gesture' = Dragging([type |-> "music-version", id |-> versionId], lastPayload')
        /\ UNCHANGED <<segments, imageGroups, last, call, results, heap, syncVars, preview>>

\* ImageList.handleDragStart: the transfer is written, setDragPayload is not
\* called.
imageVersionDragStart ==
    \E versionId \in ImageVersionIds :
        /\ gesture = NoGesture
        /\ gesture' = Dragging([type |-> "image-version", id |-> versionId], lastPayload)
        /\ UNCHANGED <<segments, imageGroups, last, call, results, heap, syncVars,
                       lastPayload, preview>>

handleSegmentDragStart ==
    \E index \in 0..(Len(segments) - 1) :
        /\ gesture = NoGesture
        /\ lastPayload' = [type |-> "music-segment", index |-> index]
        /\ gesture' = Dragging([type |-> "music-segment", index |-> index], lastPayload')
        /\ preview' = [preview EXCEPT !.draggingSegmentIndex = index]
        /\ UNCHANGED <<segments, imageGroups, last, call, results, heap, syncVars>>

\* Only the row at the start of a group is draggable.
handleImageGroupDragStart ==
    \E index \in 0..(Len(imageGroups) - 1) :
        /\ gesture = NoGesture
        /\ lastPayload' = [type |-> "image-group", index |-> index]
        /\ gesture' = Dragging([type |-> "image-group", index |-> index], lastPayload')
        /\ preview' = [preview EXCEPT !.draggingImageGroupIndex = index]
        /\ UNCHANGED <<segments, imageGroups, last, call, results, heap, syncVars>>

\* onDragOver of the music timeline.
musicTimelineDragOver ==
    \E readable \in BOOLEAN :
        LET payload == getPayloadFromEvent(readable)
        IN  /\ gesture.phase = "dragging"
            /\ IF payload = NoPayload \/ payload.type \notin {"music-version", "music-segment"}
               THEN preview' = showNothing(preview)
               ELSE \E insertIndex \in (IF payload.type = "music-segment"
                                        THEN SegmentIndexPositions
                                        ELSE InsertIndexPositions) :
                        preview' = scheduleDropPreview(
                                       setDropHintSafe(preview, "music-timeline"),
                                       DropPreview("music-timeline", insertIndex, payload))
            /\ UNCHANGED <<segments, imageGroups, last, call, results, heap, syncVars,
                           lastPayload, gesture>>

\* onDragOver of the image timeline.
imageTimelineDragOver ==
    \E readable \in BOOLEAN :
        LET payload == getPayloadFromEvent(readable)
        IN  /\ gesture.phase = "dragging"
            /\ IF \/ Len(segments) = 0
                  \/ payload = NoPayload
                  \/ payload.type \notin {"image-version", "image-group"}
               THEN preview' = showNothing(preview)
               ELSE IF payload.type = "image-group"
               THEN IF payload.index \notin 0..(Len(imageGroups) - 1)
                    THEN preview' = showNothing(setDropHintSafe(preview, "image-timeline"))
                    ELSE \E centerIndex \in SegmentIndexPositions :
                            LET group == imageGroups[payload.index + 1]
                                length == group.segmentIndexEnd - group.segmentIndexStart + 1
                                targetStart == getImageGroupTargetStart(centerIndex, length)
                            IN  preview' = scheduleDropPreview(
                                               setDropHintSafe(preview, "image-timeline"),
                                               DropPreview("image-timeline", targetStart, payload))
               ELSE \E clampedIndex \in SegmentIndexPositions :
                        preview' = scheduleDropPreview(
                                       setDropHintSafe(preview, "image-timeline"),
                                       DropPreview("image-timeline", clampedIndex, payload))
            /\ UNCHANGED <<segments, imageGroups, last, call, results, heap, syncVars,
                           lastPayload, gesture>>

\* "isOccupied" of the slot rendered for the segment at index.
isOccupied(index) ==
    \E k \in 1..Len(imageGroups) :
        index >= imageGroups[k].segmentIndexStart /\ index <= imageGroups[k].segmentIndexEnd

\* onDragOver of the image slot of the segment at index.
imageSlotDragOver ==
    \E readable \in BOOLEAN, index \in 0..(Len(segments) - 1) :
        LET payload == getPayloadFromEvent(readable)
        IN  /\ gesture.phase = "dragging"
            /\ IF payload = NoPayload
               THEN preview' = showNothing(preview)
               ELSE IF payload.type = "image-group"
               THEN IF payload.index \notin 0..(Len(imageGroups) - 1)
                    THEN preview' = showNothing(preview)
                    ELSE LET groupItem == imageGroups[payload.index + 1]
                             length == groupItem.segmentIndexEnd - groupItem.segmentIndexStart + 1
                             targetStart == getImageGroupTargetStart(index, length)
                         IN  preview' = scheduleDropPreview(
                                            setDropHintSafe(preview, "image-group-slot"),
                                            DropPreview("image-group-slot", targetStart, payload))
               ELSE IF payload.type # "image-version" \/ isOccupied(index)
               THEN preview' = setIsDraggingImageVersionSafe(showNothing(preview), FALSE)
               ELSE preview' = scheduleDropPreview(
                                   setDropHintSafe(
                                       setIsDraggingImageVersionSafe(preview, TRUE),
                                       "image-group-slot"),
                                   DropPreview("image-group-slot", index, payload))
            /\ UNCHANGED <<segments, imageGroups, last, call, results, heap, syncVars,
                           lastPayload, gesture>>

\* onDragLeave of the music timeline and of the image timeline.
timelineDragLeave ==
    /\ gesture.phase = "dragging"
    /\ preview' = showNothing(preview)
    /\ UNCHANGED <<segments, imageGroups, last, call, results, heap, syncVars,
                   lastPayload, gesture>>

\* onDragLeave of an image slot.
imageSlotDragLeave ==
    /\ gesture.phase = "dragging"
    /\ Len(segments) > 0
    /\ preview' = setIsDraggingImageVersionSafe(showNothing(preview), FALSE)
    /\ UNCHANGED <<segments, imageGroups, last, call, results, heap, syncVars,
                   lastPayload, gesture>>

\* The animation-frame callback of scheduleDropPreview.
dropPreviewFrame ==
    /\ preview.dropPreviewRaf
    /\ gesture.phase # "drop"
    /\ preview' = setDropPreviewSafe([preview EXCEPT !.dropPreviewRaf = FALSE],
                                     preview.pendingDropPreview)
    /\ UNCHANGED <<segments, imageGroups, last, call, results, heap, syncVars,
                   lastPayload, gesture>>

\* A drop over target reaches the document first: the capture-phase "drop"
\* listener runs before any onDrop of the tree below it.
documentDrop ==
    \E target \in Targets :
        /\ gesture.phase = "dragging"
        /\ target = "image-group-slot" => Len(segments) > 0
        /\ clearDragState
        /\ gesture' = [phase |-> "drop", payload |-> gesture.payload,
                       stored |-> gesture.stored, target |-> target]
        /\ UNCHANGED <<segments, imageGroups, last, call, results, heap, syncVars>>

\* The gesture once the target's onDrop has returned: whether the transfer
\* could be read at the drop and the payload getPayloadFromEvent gave.
Dropped(readable, obtained) ==
    [phase |-> "dropped", payload |-> gesture.payload, stored |-> gesture.stored,
     readable |-> readable, obtained |-> obtained]

\* onDrop of the music timeline, handleDropMusic included.
musicTimelineDrop ==
    \E readable \in BOOLEAN :
        LET payload == getPayloadFromEvent(readable)
            handled == setDropPreviewSafe(setDropHintSafe(preview, "null"), NoPreview)
        IN  /\ gesture.phase = "drop"
            /\ gesture.target = "music-timeline"
            /\ gesture' = Dropped(readable, payload)
            /\ IF payload = NoPayload
               THEN UNCHANGED <<segments, last, lastPayload, preview>>
               ELSE IF payload.type = "music-segment"
               THEN \E targetIndex \in SegmentIndexPositions :
                        /\ segments' = moveItemByIndexReplace(segments, payload.index, targetIndex)
                        /\ last' = Handler("moveSegmentByIndex", NoToast)
                        /\ clearDragState
               ELSE \E insertIndex \in InsertIndexPositions :
                        /\ preview' = handled
                        /\ lastPayload' = lastPayload
                        /\ IF payload.type # "music-version"
                           THEN UNCHANGED <<segments, last>>
                           ELSE IF findMusicVersion(payload.id) = {}
                           THEN /\ last' = Handler("addSegmentByVersion", "Music version not found")
                                /\ UNCHANGED segments
                           ELSE LET version == CHOOSE item \in findMusicVersion(payload.id) : TRUE
                                IN  /\ segments' = Splice(segments, insertIndex, 0,
                                                          <<DraftSegment(version)>>)
                                    /\ last' = Handler("addSegmentByVersion", NoToast)
            /\ UNCHANGED <<imageGroups, call, results, heap, syncVars>>

\* onDrop of the image timeline, handleDropImage included.
imageTimelineDrop ==
    \E readable \in BOOLEAN :
        LET payload == getPayloadFromEvent(readable)
            handled == setDropPreviewSafe(setDropHintSafe(preview, "null"), NoPreview)
        IN  /\ gesture.phase = "drop"
            /\ gesture.target = "image-timeline"
            /\ IF Len(segments) = 0
               THEN /\ gesture' = Dropped(readable, NoPayload)
                    /\ last' = Handler("onDrop", "Add music segments first")
                    /\ UNCHANGED <<imageGroups, lastPayload, preview>>
               ELSE /\ gesture' = Dropped(readable, payload)
                    /\ IF payload # NoPayload /\ payload.type = "image-group"
                       THEN IF payload.index \notin 0..(Len(imageGroups) - 1)
                            THEN UNCHANGED <<imageGroups, last, lastPayload, preview>>
                            ELSE \E centerIndex \in SegmentIndexPositions :
                                    LET group == imageGroups[payload.index + 1]
                                        length == group.segmentIndexEnd
                                                      - group.segmentIndexStart + 1
                                        targetStart == getImageGroupTargetStart(centerIndex, length)
                                    IN  /\ imageGroups' = moveImageGroupsBySlot(imageGroups,
                                                 payload.index, targetStart, Len(segments))
                                        /\ last' = Handler("moveImageGroupBySlot", NoToast)
                                        /\ clearDragState
                       ELSE \E index \in SegmentIndexPositions :
                                /\ preview' = handled
                                /\ lastPayload' = lastPayload
                                /\ IF payload = NoPayload \/ payload.type # "image-version"
                                   THEN UNCHANGED <<imageGroups, last>>
                                   ELSE LET outcome == addImageGroupForSegment(payload.id, index)
                                        IN  /\ imageGroups' = outcome.imageGroups
                                            /\ last' = Handler("handleDropImage", outcome.toast)
            /\ UNCHANGED <<segments, call, results, heap, syncVars>>

\* onDrop of the image slot of the segment at index.
imageSlotDrop ==
    \E readable \in BOOLEAN, index \in 0..(Len(segments) - 1) :
        LET payload == getPayloadFromEvent(readable)
        IN  /\ gesture.phase = "drop"
            /\ gesture.target = "image-group-slot"
            /\ gesture' = Dropped(readable, payload)
            /\ IF payload = NoPayload
               THEN UNCHANGED <<imageGroups, last, lastPayload, preview>>
               ELSE IF payload.type = "image-group"
               THEN IF payload.index \notin 0..(Len(imageGroups) - 1)
                    THEN UNCHANGED <<imageGroups, last, lastPayload, preview>>
                    ELSE LET groupItem == imageGroups[payload.index + 1]
                             length == groupItem.segmentIndexEnd - groupItem.segmentIndexStart + 1
                             targetStart == getImageGroupTargetStart(index, length)
                         IN  /\ imageGroups' = moveImageGroupsBySlot(imageGroups,
                                      payload.index, targetStart, Len(segments))
                             /\ last' = Handler("moveImageGroupBySlot", NoToast)
                             /\ clearDragState
               ELSE IF payload.type # "image-version" \/ isOccupied(index)
               THEN UNCHANGED <<imageGroups, last, lastPayload, preview>>
               ELSE LET outcome == addImageGroupForSegment(payload.id, index)
                    IN  /\ imageGroups' = outcome.imageGroups
                        /\ last' = Handler("addImageGroupForSegment", outcome.toast)
                        /\ lastPayload' = lastPayload
                        /\ preview' = showNothing(preview)
            /\ UNCHANGED <<segments, call, results, heap, syncVars>>

\* The dragend event that closes every gesture (after a drop, after Escape,
\* after a release outside every target): the document listener and the
\* source's onDragEnd.
dragend ==
    /\ gesture.phase \in {"dragging", "dropped"}
    /\ clearDragState
    /\ gesture' = NoGesture
    /\ UNCHANGED <<segments, imageGroups, last, call, results, heap, syncVars>>

\* The window loses focus.
windowBlur ==
    /\ gesture.phase # "drop"
    /\ clearDragState
    /\ UNCHANGED <<segments, imageGroups, last, call, results, heap, syncVars, gesture>>

NextDrag ==
    \/ musicVersionDragStart
    \/ imageVersionDragStart
    \/ handleSegmentDragStart
    \/ handleImageGroupDragStart
    \/ musicTimelineDragOver
    \/ imageTimelineDragOver
    \/ imageSlotDragOver
    \/ timelineDragLeave
    \/ imageSlotDragLeave
    \/ dropPreviewFrame
    \/ documentDrop
    \/ musicTimelineDrop
    \/ imageTimelineDrop
    \/ imageSlotDrop
    \/ dragend
    \/ windowBlur

SpecDrag == Init /\ [][NextDrag]_vars

(***************************************************************************)
(* src/lib/video-timeline.js and the time lookups of src/lib/video-drop.js *)
(* called directly.  Durations are whole seconds; a time is given in       *)
(* tenths of a second, so that 9.9 s is 99 and the midpoint                *)
(* cursor + duration / 2 is 10 * cursor + 5 * duration.                    *)
(***************************************************************************)
MaxTimelineSegments == 3

Durations == {0, 5, 8, 10, 12}

getTotalDurationSeconds(segs) ==
    LET reduce[k \in 0..Len(segs)] ==
            IF k = 0 THEN 0 ELSE reduce[k - 1] + segs[k].durationSeconds
    IN  reduce[Len(segs)]

\* Fault variant: every range starts at 0.
buildSegmentOffsets_noCursor(segs) ==
    [k \in 1..Len(segs) |-> [start |-> 0, end |-> segs[k].durationSeconds]]

buildSegmentOffsets(segs) ==
    LET cursor[k \in 0..Len(segs)] ==
            IF k = 0 THEN 0 ELSE cursor[k - 1] + segs[k].durationSeconds
    IN  [k \in 1..Len(segs) |->
            [start |-> cursor[k - 1], end |-> cursor[k - 1] + segs[k].durationSeconds]]

\* Fault variant: the end of the segment is compared, not its midpoint.
getInsertIndexByTime_byEnd(segs, targetTenths) ==
    LET walk[i \in 0..Len(segs), cursor \in 0..getTotalDurationSeconds(segs)] ==
            IF i = Len(segs) THEN Len(segs)
            ELSE LET duration == segs[i + 1].durationSeconds
                 IN  IF targetTenths < 10 * cursor + 10 * duration THEN i
                     ELSE walk[i + 1, cursor + duration]
    IN  IF Len(segs) = 0 THEN 0 ELSE walk[0, 0]

getInsertIndexByTime(segs, targetTenths) ==
    LET walk[i \in 0..Len(segs), cursor \in 0..getTotalDurationSeconds(segs)] ==
            IF i = Len(segs) THEN Len(segs)
            ELSE LET duration == segs[i + 1].durationSeconds
                 IN  IF targetTenths < 10 * cursor + 5 * duration THEN i
                     ELSE walk[i + 1, cursor + duration]
    IN  IF Len(segs) = 0 THEN 0 ELSE walk[0, 0]

\* Fault variant: a time past the last segment gives the length.
getSegmentIndexByTime_length(segs, targetTenths) ==
    LET walk[i \in 0..Len(segs), cursor \in 0..getTotalDurationSeconds(segs)] ==
            IF i = Len(segs) THEN Len(segs)
            ELSE LET end == cursor + segs[i + 1].durationSeconds
                 IN  IF targetTenths < 10 * end THEN i ELSE walk[i + 1, end]
    IN  IF Len(segs) = 0 THEN 0 ELSE walk[0, 0]

getSegmentIndexByTime(segs, targetTenths) ==
    LET walk[i \in 0..Len(segs), cursor \in 0..getTotalDurationSeconds(segs)] ==
            IF i = Len(segs) THEN Max(0, Len(segs) - 1)
            ELSE LET end == cursor + segs[i + 1].durationSeconds
                 IN  IF targetTenths < 10 * end THEN i ELSE walk[i + 1, end]
    IN  IF Len(segs) = 0 THEN 0 ELSE walk[0, 0]

\* A null image group.
NoImageGroup == [group |-> "null"]

\* Fault variant: the segment at the end of the range is left out.
getImageGroupDurationSeconds_exclusiveEnd(imageGroup, segs) ==
    IF imageGroup = NoImageGroup \/ Len(segs) = 0 THEN 0
    ELSE LET start == Max(0, imageGroup.segmentIndexStart)
             end == Min(Len(segs) - 1, imageGroup.segmentIndexEnd)
             sum[i \in (start - 1)..end] ==
                 IF i < start THEN 0 ELSE sum[i - 1] + segs[i + 1].durationSeconds
         IN  IF start < end THEN sum[end - 1] ELSE 0

getImageGroupDurationSeconds(imageGroup, segs) ==
    IF imageGroup = NoImageGroup \/ Len(segs) = 0 THEN 0
    ELSE LET start == Max(0, imageGroup.segmentIndexStart)
             end == Min(Len(segs) - 1, imageGroup.segmentIndexEnd)
             sum[i \in (start - 1)..end] ==
                 IF i < start THEN 0 ELSE sum[i - 1] + segs[i + 1].durationSeconds
         IN  IF start <= end THEN sum[end] ELSE 0

getImageGroupStartSeconds(imageGroup, segs) ==
    IF imageGroup = NoImageGroup \/ Len(segs) = 0 THEN 0
    ELSE LET offsets == buildSegmentOffsets(segs)
             startIndex == Min(Max(0, imageGroup.segmentIndexStart), Len(offsets) - 1)
         IN  offsets[startIndex + 1].start

\* The groups of a call over n segments: null, and every pair of indices
\* from two before the first segment to one past the last.
CallGroups(n) ==
    {NoImageGroup} \cup
    { [segmentIndexStart |-> start, segmentIndexEnd |-> end] :
          start \in (-2)..(n + 1), end \in (-2)..(n + 1) }

\* The times of a call: before the start, and the start, the middle and
\* the last tenth of every second up to five seconds past the end.
Times(segs) ==
    { 10 * second + tenth : second \in (-1)..(getTotalDurationSeconds(segs) + 5),
                            tenth \in {0, 5, 9} }

TimelineCall ==
    \E n \in 0..MaxTimelineSegments :
        \E durations \in [1..n -> Durations] :
            LET segs == [k \in 1..n |-> [durationSeconds |-> durations[k]]]
            IN  \/ \E fn \in {"getTotalDurationSeconds", "buildSegmentOffsets"} :
                      call = [fn |-> fn, segments |-> segs]
                \/ \E fn \in {"getInsertIndexByTime", "getSegmentIndexByTime"},
                      targetTenths \in Times(segs) :
                      call = [fn |-> fn, segments |-> segs, targetTenths |-> targetTenths]
                \/ \E fn \in {"getImageGroupDurationSeconds", "getImageGroupStartSeconds"},
                      imageGroup \in CallGroups(n) :
                      call = [fn |-> fn, segments |-> segs, imageGroup |-> imageGroup]

InitTimeline ==
    /\ segments = <<>>
    /\ imageGroups = <<>>
    /\ last = Handler("mount", NoToast)
    /\ TimelineCall
    /\ results = <<>>
    /\ heap = NoHeap
    /\ video = NoVideo
    /\ isLoading = TRUE
    /\ isSaving = FALSE
    /\ isRendering = FALSE
    /\ requests = NoRequests
    /\ intervalId = null
    /\ isMounted = TRUE
    /\ DragAtRest

applyGetTotalDurationSeconds ==
    /\ call.fn = "getTotalDurationSeconds"
    /\ results = <<>>
    /\ results' = <<getTotalDurationSeconds(call.segments)>>
    /\ UNCHANGED <<segments, imageGroups, last, call, heap, syncVars, dragVars>>

applyBuildSegmentOffsets ==
    /\ call.fn = "buildSegmentOffsets"
    /\ results = <<>>
    /\ results' = <<buildSegmentOffsets(call.segments)>>
    /\ UNCHANGED <<segments, imageGroups, last, call, heap, syncVars, dragVars>>

applyGetInsertIndexByTime ==
    /\ call.fn = "getInsertIndexByTime"
    /\ results = <<>>
    /\ results' = <<getInsertIndexByTime(call.segments, call.targetTenths)>>
    /\ UNCHANGED <<segments, imageGroups, last, call, heap, syncVars, dragVars>>

applyGetSegmentIndexByTime ==
    /\ call.fn = "getSegmentIndexByTime"
    /\ results = <<>>
    /\ results' = <<getSegmentIndexByTime(call.segments, call.targetTenths)>>
    /\ UNCHANGED <<segments, imageGroups, last, call, heap, syncVars, dragVars>>

applyGetImageGroupDurationSeconds ==
    /\ call.fn = "getImageGroupDurationSeconds"
    /\ results = <<>>
    /\ results' = <<getImageGroupDurationSeconds(call.imageGroup, call.segments)>>
    /\ UNCHANGED <<segments, imageGroups, last, call, heap, syncVars, dragVars>>

applyGetImageGroupStartSeconds ==
    /\ call.fn = "getImageGroupStartSeconds"
    /\ results = <<>>
    /\ results' = <<getImageGroupStartSeconds(call.imageGroup, call.segments)>>
    /\ UNCHANGED <<segments, imageGroups, last, call, heap, syncVars, dragVars>>

NextTimeline ==
    \/ applyGetTotalDurationSeconds
    \/ applyBuildSegmentOffsets
    \/ applyGetInsertIndexByTime
    \/ applyGetSegmentIndexByTime
    \/ applyGetImageGroupDurationSeconds
    \/ applyGetImageGroupStartSeconds

SpecTimeline == InitTimeline /\ [][NextTimeline]_vars

(***************************************************************************)
(* Decoding of a drag payload: parseDragDataTransfer (src/lib/video-drop)  *)
(* and normalizeDragPayload on any value.  A JavaScript value is a record  *)
(* tagged with its kind; a string is the sequence of its characters, where *)
(* a run of characters without ':' that the code never looks into (a type  *)
(* tag, an id) is one symbol; a number is given in tenths, so that 1.5 is  *)
(* 15; an object has the three properties the code reads, an absent one    *)
(* being undefined.  A JSON text is the sequence of its tokens.            *)
(***************************************************************************)
MaxTextLength == 5

Str(chars) == [kind |-> "string", chars |-> chars]

Num(tenths) == [kind |-> "number", tenths |-> tenths]

JsNull == [kind |-> "null"]

Undefined == [kind |-> "undefined"]

Obj(type, id, index) == [kind |-> "object", type |-> type, id |-> id, index |-> index]

\* What a throwing JSON.parse leaves in the model.
SyntaxError == [kind |-> "SyntaxError"]

Tags == {"music-version", "image-version", "music-segment", "image-group"}

Digits == {"2"}

\* "!value" for the values of the model.
Falsy(value) ==
    \/ value.kind \in {"null", "undefined"}
    \/ value.kind = "string" /\ value.chars = <<>>
    \/ value.kind = "number" /\ value.tenths = 0

\* text.split(":"): the pieces between the colons.
RECURSIVE split(_)
split(chars) ==
    IF \A k \in 1..Len(chars) : chars[k] # ":" THEN <<chars>>
    ELSE LET colon == CHOOSE k \in 1..Len(chars) :
                          chars[k] = ":" /\ \A j \in 1..(k - 1) : chars[j] # ":"
         IN  <<SubSeq(chars, 1, colon - 1)>> \o split(SubSeq(chars, colon + 1, Len(chars)))

Punct(symbol) == [tok |-> symbol]

Scalar(value) == [tok |-> "scalar", value |-> value]

Member(key, value) ==
    IF value = Undefined THEN <<>>
    ELSE <<Scalar(Str(<<key>>)), Punct(":"), Scalar(value)>>

\* The members of an object text, separated by commas.
RECURSIVE joinMembers(_)
joinMembers(members) ==
    IF members = <<>> THEN <<>>
    ELSE IF Head(members) = <<>> THEN joinMembers(Tail(members))
    ELSE LET rest == joinMembers(Tail(members))
         IN  IF rest = <<>> THEN Head(members)
             ELSE Head(members) \o <<Punct(",")>> \o rest

\* JSON.stringify of a scalar or of an object of the model.
JSONstringify(value) ==
    IF value.kind # "object" THEN <<Scalar(value)>>
    ELSE <<Punct("{")>>
           \o joinMembers(<<Member("type", value.type), Member("id", value.id),
                            Member("index", value.index)>>)
           \o <<Punct("}")>>

IsScalar(token) == token.tok = "scalar"

IsKey(token) ==
    /\ IsScalar(token)
    /\ token.value.kind = "string"
    /\ Len(token.value.chars) = 1
    /\ token.value.chars[1] \in {"type", "id", "index"}

\* The tokens between the braces are members: key : value, then a comma
\* and the next member.
WellFormedMembers(inner) ==
    \/ inner = <<>>
    \/ /\ Len(inner) % 4 = 3
       /\ \A k \in 1..Len(inner) :
             CASE k % 4 = 1 -> IsKey(inner[k])
               [] k % 4 = 2 -> inner[k] = Punct(":")
               [] k % 4 = 3 -> IsScalar(inner[k])
               [] OTHER -> inner[k] = Punct(",")

\* The value of the last member with the key, undefined when there is none.
Property(inner, key) ==
    LET at == { k \in 1..Len(inner) : k % 4 = 1 /\ inner[k].value.chars[1] = key }
    IN  IF at = {} THEN Undefined
        ELSE inner[(CHOOSE k \in at : \A j \in at : j <= k) + 2].value

\* JSON.parse: the value of a well-formed text, a SyntaxError otherwise.
JSONparse(tokens) ==
    IF Len(tokens) = 1 /\ IsScalar(tokens[1]) THEN tokens[1].value
    ELSE IF /\ Len(tokens) >= 2
            /\ tokens[1] = Punct("{")
            /\ tokens[Len(tokens)] = Punct("}")
            /\ WellFormedMembers(SubSeq(tokens, 2, Len(tokens) - 1))
    THEN LET inner == SubSeq(tokens, 2, Len(tokens) - 1)
         IN  Obj(Property(inner, "type"), Property(inner, "id"), Property(inner, "index"))
    ELSE SyntaxError

\* A transfer: none, an object without getData, or the two entries that
\* getData returns ("" for an entry that is not there).
NoTransfer == [transfer |-> "null"]

NoGetData == [transfer |-> "object"]

DataTransfer(mime, plain) == [transfer |-> "DataTransfer", mime |-> mime, plain |-> plain]

\* Fault variant: the plain-text entry is never read.
parseDragDataTransfer_noFallback(dataTransfer) ==
    IF dataTransfer \in {NoTransfer, NoGetData} THEN JsNull
    ELSE IF dataTransfer.mime # <<>>
    THEN IF JSONparse(dataTransfer.mime) = SyntaxError THEN JsNull
         ELSE JSONparse(dataTransfer.mime)
    ELSE JsNull

\* Fault variant: a text that does not parse is treated as absent.
parseDragDataTransfer_fallbackOnError(dataTransfer) ==
    IF dataTransfer \in {NoTransfer, NoGetData} THEN JsNull
    ELSE IF dataTransfer.mime # <<>> /\ JSONparse(dataTransfer.mime) # SyntaxError
    THEN JSONparse(dataTransfer.mime)
    ELSE IF dataTransfer.plain = <<>> THEN JsNull
    ELSE LET pieces == split(dataTransfer.plain)
         IN  IF pieces[1] = <<>> \/ Len(pieces) < 2 \/ pieces[2] = <<>> THEN JsNull
             ELSE Obj(Str(pieces[1]), Str(pieces[2]), Undefined)

parseDragDataTransfer(dataTransfer) ==
    IF dataTransfer \in {NoTransfer, NoGetData} THEN JsNull
    ELSE IF dataTransfer.mime # <<>>
    THEN IF JSONparse(dataTransfer.mime) = SyntaxError THEN JsNull
         ELSE JSONparse(dataTransfer.mime)
    ELSE IF dataTransfer.plain = <<>> THEN JsNull
    ELSE LET pieces == split(dataTransfer.plain)
         IN  IF pieces[1] = <<>> \/ Len(pieces) < 2 \/ pieces[2] = <<>> THEN JsNull
             ELSE Obj(Str(pieces[1]), Str(pieces[2]), Undefined)

\* Number.parseInt(text, 10): the number written by the leading digits, NaN
\* when the text does not start with a digit.
parseIntChars(chars) ==
    LET digit(c) == CASE c = "2" -> 2 [] OTHER -> 0
        value[k \in 0..Len(chars)] ==
            IF k = 0 THEN 0 ELSE 10 * value[k - 1] + digit(chars[k])
        leading == { k \in 0..Len(chars) : \A j \in 1..k : chars[j] \in Digits }
        count == CHOOSE k \in leading : \A j \in leading : j <= k
    IN  IF count = 0 THEN NaN ELSE value[count]

IsTag(value, tags) ==
    value.kind = "string" /\ Len(value.chars) = 1 /\ value.chars[1] \in tags

\* normalizeDragPayload applied to any value (its parameter is "unknown").
normalizeDragPayloadUnknown(payload) ==
    IF Falsy(payload) \/ payload.kind # "object" THEN JsNull
    ELSE IF IsTag(payload.type, {"music-version", "image-version"})
            /\ payload.id.kind = "string"
    THEN Obj(payload.type, payload.id, Undefined)
    ELSE IF IsTag(payload.type, {"music-segment", "image-group"})
            /\ payload.index.kind = "number"
    THEN Obj(payload.type, Undefined, payload.index)
    ELSE IF IsTag(payload.type, {"music-segment", "image-group"})
            /\ payload.id.kind = "string"
            /\ parseIntChars(payload.id.chars) # NaN
    THEN Obj(payload.type, Undefined, Num(10 * parseIntChars(payload.id.chars)))
    ELSE JsNull

\* The characters of the plain-text entries of the calls.
PlainChars == {"image-version", "music-segment", "iv-2", "2", ":"}

TypeValues ==
    {Undefined, Num(10), Str(<<"iv-2">>)} \cup { Str(<<tag>>) : tag \in Tags }

IdValues ==
    {Undefined, Num(20), Str(<<>>), Str(<<"iv-2">>), Str(<<"2">>), Str(<<"2", "iv-2">>)}

IndexValues == {Undefined, JsNull, Num(10), Num(15), Str(<<"2">>)}

RawScalars == {JsNull, Num(0), Num(10), Str(<<>>), Str(<<"music-segment">>)}

RawObjects ==
    { Obj(type, id, index) : type \in TypeValues, id \in IdValues, index \in IndexValues }

\* The plain-text entries that accompany a structured entry.
SamplePlain == {<<>>, <<":">>, <<"image-version", ":", "iv-2">>}

\* A call: a transfer with no structured entry and any plain text; a
\* transfer whose structured entry is a JSON text or the beginning of one;
\* no transfer; any value handed to normalizeDragPayload.
DecodeCall ==
    \/ \E dataTransfer \in {NoTransfer, NoGetData} :
          call = [fn |-> "parseDragDataTransfer", dataTransfer |-> dataTransfer]
    \/ \E n \in 0..MaxTextLength :
          \E plain \in [1..n -> PlainChars] :
              call = [fn |-> "parseDragDataTransfer",
                      dataTransfer |-> DataTransfer(<<>>, plain)]
    \/ \E value \in RawObjects \cup RawScalars :
          \E k \in 1..Len(JSONstringify(value)), plain \in SamplePlain :
              call = [fn |-> "parseDragDataTransfer",
                      dataTransfer |-> DataTransfer(SubSeq(JSONstringify(value), 1, k), plain)]
    \/ \E payload \in RawObjects \cup RawScalars \cup {Undefined} :
          call = [fn |-> "normalizeDragPayload", payload |-> payload]

InitDecode ==
    /\ segments = <<>>
    /\ imageGroups = <<>>
    /\ last = Handler("mount", NoToast)
    /\ DecodeCall
    /\ results = <<>>
    /\ heap = NoHeap
    /\ video = NoVideo
    /\ isLoading = TRUE
    /\ isSaving = FALSE
    /\ isRendering = FALSE
    /\ requests = NoRequests
    /\ intervalId = null
    /\ isMounted = TRUE
    /\ DragAtRest

applyParseDragDataTransfer ==
    /\ call.fn = "parseDragDataTransfer"
    /\ results = <<>>
    /\ results' = <<parseDragDataTransfer(call.dataTransfer)>>
    /\ UNCHANGED <<segments, imageGroups, last, call, heap, syncVars, dragVars>>

\* parseDragPayload on the transfer just decoded.
applyParseDragPayload ==
    /\ call.fn = "parseDragDataTransfer"
    /\ Len(results) = 1
    /\ results' = Append(results, normalizeDragPayloadUnknown(results[1]))
    /\ UNCHANGED <<segments, imageGroups, last, call, heap, syncVars, dragVars>>

applyNormalizeDragPayload ==
    /\ call.fn = "normalizeDragPayload"
    /\ results = <<>>
    /\ results' = <<normalizeDragPayloadUnknown(call.payload)>>
    /\ UNCHANGED <<segments, imageGroups, last, call, heap, syncVars, dragVars>>

NextDecode ==
    \/ applyParseDragDataTransfer
    \/ applyParseDragPayload
    \/ applyNormalizeDragPayload

SpecDecode == InitDecode /\ [][NextDecode]_vars

\* Group constructor used by the literal scenarios.
G(imageVersionId, imageId, start, end) ==
    [imageVersionId |-> imageVersionId, imageId |-> imageId,
     segmentIndexStart |-> start, segmentIndexEnd |-> end]

Covered(groups, position, imageVersionId) ==
    \E k \in 1..Len(groups) :
        /\ groups[k].imageVersionId = imageVersionId
        /\ groups[k].segmentIndexStart <= position
        /\ position <= groups[k].segmentIndexEnd

Moved == call.fn = "moveImageGroupsBySlot" /\ Len(results) = 1

ValidMove ==
    /\ Moved
    /\ call.segmentsLength > 0
    /\ 0 <= call.groupIndex
    /\ call.groupIndex < Len(call.groups)

RelocateToFrontScenario ==
    moveImageGroupsBySlot(
        <<G("v1", "i1", 0, 1), G("v2", "i2", 2, 2), G("v3", "i3", 3, 3)>>, 1, 0, 4)
      = <<G("v2", "i2", 0, 0), G("v1", "i1", 1, 2), G("v3", "i3", 3, 3)>>

\* C2: relocating a group of a consistent collection to any integer target
\* start leaves every position of [s, s+L-1] covered by a group of the moved
\* group's image version, with L the moved group's length and
\* s = min(max(targetStart, 0), segmentCount - L); A[0,1], B[2,2], C[3,3]
\* with B relocated to 0 gives B[0,0], A[1,2], C[3,3].
C2_RelocatedBlockCovered ==
    /\ ValidMove =>
          LET active == call.groups[call.groupIndex + 1]
              L == active.segmentIndexEnd - active.segmentIndexStart + 1
              s == Min(Max(call.targetStart, 0), call.segmentsLength - L)
          IN  \A position \in s..(s + L - 1) :
                  Covered(results[1], position, active.imageVersionId)
    /\ RelocateToFrontScenario

C2_Witness ==
    /\ ValidMove
    /\ call.targetStart > call.segmentsLength - 1
    /\ call.groups[call.groupIndex + 1].segmentIndexEnd < call.segmentsLength - 1
    /\ Len(call.groups) >= 2
    /\ \E k \in 1..Len(call.groups) :
           call.groups[k].imageVersionId # call.groups[call.groupIndex + 1].imageVersionId
    /\ results[1] # call.groups

RelocateNextToSameVersionScenario ==
    moveImageGroupsBySlot(
        <<G("v1", "i1", 0, 0), G("v2", "i2", 1, 1), G("v1", "i1", 2, 2)>>, 2, 1, 4)
      = <<G("v1", "i1", 0, 1), G("v2", "i2", 2, 2)>>

\* C3: the collection returned by a relocation holds no two contiguous
\* groups (a.end + 1 = b.start) of the same image version; A[0,0], B[1,1],
\* A[2,2] with the second A relocated to 1 gives A[0,1], B[2,2].
NoContiguousSameVersion(groups) ==
    \A j, k \in 1..Len(groups) :
        (j # k /\ groups[j].segmentIndexEnd + 1 = groups[k].segmentIndexStart)
            => groups[j].imageVersionId # groups[k].imageVersionId

C3_RelocationCoalesces ==
    /\ ValidMove => NoContiguousSameVersion(results[1])
    /\ RelocateNextToSameVersionScenario

C3_Witness ==
    /\ ValidMove
    /\ NoContiguousSameVersion(call.groups)
    /\ Len(call.groups) = 3
    /\ Len(results[1]) = 2
    /\ results[1][1].segmentIndexEnd + 1 = results[1][2].segmentIndexStart

Inserted == call.fn = "mergeImageGroupsOnInsert" /\ Len(results) >= 1

\* The groups of the call that contain the target index.
CoveringGroups ==
    { k \in 1..Len(call.groups) :
        /\ call.groups[k].segmentIndexStart <= call.segmentIndex
        /\ call.segmentIndex <= call.groups[k].segmentIndexEnd }

\* The groups of the dropped version that end right before / start right
\* after the target index.
LeftNeighbours ==
    { k \in 1..Len(call.groups) :
        /\ call.groups[k].imageVersionId = call.imageVersionId
        /\ call.groups[k].segmentIndexEnd = call.segmentIndex - 1 }

RightNeighbours ==
    { k \in 1..Len(call.groups) :
        /\ call.groups[k].imageVersionId = call.imageVersionId
        /\ call.groups[k].segmentIndexStart = call.segmentIndex + 1 }

Uncovered ==
    /\ Inserted
    /\ 0 <= call.segmentIndex
    /\ call.segmentIndex < call.segmentsLength
    /\ CoveringGroups = {}

\* C5: a target index outside [0, segmentCount) gives the error "Segment
\* range is invalid" with the input collection, nothing added or extended.
C5_InvalidIndexRejected ==
    (Inserted /\ (call.segmentIndex < 0 \/ call.segmentIndex >= call.segmentsLength))
        => results[1] = [groups |-> call.groups, error |-> "Segment range is invalid"]

C5_Witness ==
    /\ Inserted
    /\ call.segmentIndex = call.segmentsLength
    /\ LeftNeighbours # {}
    /\ "error" \in DOMAIN results[1]

\* C6: a drop on an index already covered by a group of the dropped version
\* returns merged:true with the collection unchanged, and a second identical
\* insert returns the collection the first one returned.
C6_InsertIdempotent ==
    /\ (Inserted /\ \E k \in CoveringGroups :
                        call.groups[k].imageVersionId = call.imageVersionId)
          => results[1] = [groups |-> call.groups, merged |-> TRUE]
    /\ (call.fn = "mergeImageGroupsOnInsert" /\ Len(results) = 2)
          => results[2].groups = results[1].groups

C6_Witness ==
    /\ call.fn = "mergeImageGroupsOnInsert"
    /\ Len(results) = 2
    /\ results[1].groups # call.groups
    /\ results[2] = [groups |-> results[1].groups, merged |-> TRUE]

\* The sequence without the element at position p.
Without(seq, p) == SubSeq(seq, 1, p - 1) \o SubSeq(seq, p + 1, Len(seq))

InsertBetweenScenario ==
    mergeImageGroupsOnInsert(
        <<G("img-v1", "img-1", 0, 0), G("img-v1", "img-1", 2, 3)>>,
        1, "img-v1", "img-1", 5).groups
      = <<G("img-v1", "img-1", 0, 3)>>

\* C7: with the target uncovered and two distinct groups of the dropped
\* version ending at target-1 and starting at target+1, both are removed and
\* exactly one group left.start..right.end is added; the other groups are
\* unchanged and the count drops by one; [0,0] and [2,3] with an insert at 1
\* give the single group [0,3].
C7_MergeBothNeighbours ==
    /\ (Uncovered /\ LeftNeighbours # {} /\ RightNeighbours # {}) =>
          \A l \in LeftNeighbours, r \in RightNeighbours :
              LET Keep(idx) == idx + 1 # l /\ idx + 1 # r
                  others == FilterByIndex(call.groups, Keep, 0)
                  out == results[1].groups
              IN  /\ results[1] = [groups |-> out, merged |-> TRUE]
                  /\ Len(out) = Len(call.groups) - 1
                  /\ \E p \in 1..Len(out) :
                        /\ out[p] = [imageVersionId |-> call.imageVersionId,
                                     imageId |-> call.imageId,
                                     segmentIndexStart |-> call.groups[l].segmentIndexStart,
                                     segmentIndexEnd |-> call.groups[r].segmentIndexEnd]
                        /\ Without(out, p) = others
    /\ InsertBetweenScenario

C7_Witness ==
    /\ Uncovered
    /\ LeftNeighbours # {}
    /\ RightNeighbours # {}
    /\ Len(call.groups) = 3
    /\ Len(results[1].groups) = 2

\* C8: with the target uncovered, a single same-version neighbour is
\* extended by one position to the target (left: its end, right: its start)
\* and the count is unchanged; with no same-version neighbour a singleton
\* [target,target] is appended with merged:false; every other group is
\* unchanged, so a neighbour of another version is never extended.
C8_ExtendOrAppend ==
    /\ (Uncovered /\ LeftNeighbours # {} /\ RightNeighbours = {}) =>
          \A l \in LeftNeighbours :
              results[1] = [groups |-> [call.groups EXCEPT
                                           ![l].segmentIndexEnd = call.segmentIndex],
                            merged |-> TRUE]
    /\ (Uncovered /\ LeftNeighbours = {} /\ RightNeighbours # {}) =>
          \A r \in RightNeighbours :
              results[1] = [groups |-> [call.groups EXCEPT
                                           ![r].segmentIndexStart = call.segmentIndex],
                            merged |-> TRUE]
    /\ (Uncovered /\ LeftNeighbours = {} /\ RightNeighbours = {}) =>
          results[1] = [groups |-> Append(call.groups,
                                       [imageVersionId |-> call.imageVersionId,
                                        imageId |-> call.imageId,
                                        segmentIndexStart |-> call.segmentIndex,
                                        segmentIndexEnd |-> call.segmentIndex]),
                        merged |-> FALSE]
    /\ Uncovered =>
          \A k \in 1..Len(call.groups) :
              call.groups[k].imageVersionId # call.imageVersionId
                  => \E p \in 1..Len(results[1].groups) :
                         results[1].groups[p] = call.groups[k]

C8_Witness ==
    /\ Uncovered
    /\ LeftNeighbours = {}
    /\ \E r \in RightNeighbours :
           results[1].groups[r].segmentIndexStart = call.segmentIndex
    /\ \E k \in 1..Len(call.groups) :
           /\ call.groups[k].imageVersionId # call.imageVersionId
           /\ call.groups[k].segmentIndexEnd = call.segmentIndex - 1
           /\ results[1].groups[k] = call.groups[k]

\* C4: a single-index insert whose target lies inside a group of another
\* image version returns the error "Image group overlaps an existing range"
\* with exactly the input collection, and the editor's draft is unchanged by
\* such a drop.
OverlapError == "Image group overlaps an existing range"

CoveredByOtherVersion(segmentIndex, imageVersionId) ==
    \E k \in 1..Len(imageGroups) :
        /\ imageGroups[k].segmentIndexStart <= segmentIndex
        /\ segmentIndex <= imageGroups[k].segmentIndexEnd
        /\ imageGroups[k].imageVersionId # imageVersionId

C4_OverlapRejectedState ==
    \A v \in imageVersions, segmentIndex \in (-1)..Len(segments) :
        CoveredByOtherVersion(segmentIndex, v.id) =>
            /\ mergeImageGroupsOnInsert(imageGroups, segmentIndex, v.id, v.imageId,
                                        Len(segments))
                 = [groups |-> imageGroups, error |-> OverlapError]
            /\ addImageGroupForSegment(v.id, segmentIndex)
                 = [imageGroups |-> imageGroups, toast |-> OverlapError]

C4_OverlapRejectedStep ==
    (last'.op = "handleDropImage" /\ last'.toast = OverlapError)
        => imageGroups' = imageGroups

C4_OverlapRejected == []C4_OverlapRejectedState /\ [][C4_OverlapRejectedStep]_vars

C4_Witness ==
    /\ last = Handler("handleDropImage", OverlapError)
    /\ Len(imageGroups) >= 2

\* C9: the explicit range add leaves the image groups unchanged and raises
\* an error when start > end, when an index is outside [0, segmentCount-1]
\* or when [start,end] intersects an existing group; when it succeeds it
\* appends exactly the group [start,end] and changes no existing group, even
\* next to a group of the same image version.
Intersects(start, end) ==
    \E k \in 1..Len(imageGroups), position \in start..end :
        /\ imageGroups[k].segmentIndexStart <= position
        /\ position <= imageGroups[k].segmentIndexEnd

C9_RangeAddState ==
    \A versionId \in ImageVersionIds,
       start \in (-1)..MaxSegments, end \in (-1)..MaxSegments :
        LET outcome == addImageGroupRange(versionId, start, end)
            invalid ==
                \/ start > end
                \/ start < 0 \/ start > Len(segments) - 1
                \/ end < 0 \/ end > Len(segments) - 1
                \/ Intersects(start, end)
        IN  /\ invalid => (outcome.imageGroups = imageGroups /\ outcome.toast # NoToast)
            /\ outcome.toast # NoToast => outcome.imageGroups = imageGroups
            /\ outcome.toast = NoToast =>
                  /\ Len(outcome.imageGroups) = Len(imageGroups) + 1
                  /\ SubSeq(outcome.imageGroups, 1, Len(imageGroups)) = imageGroups
                  /\ LET added == outcome.imageGroups[Len(imageGroups) + 1]
                     IN  /\ added.imageVersionId = versionId
                         /\ added.segmentIndexStart = start
                         /\ added.segmentIndexEnd = end

C9_RangeAddStep ==
    last'.op = "handleAddImageGroup" =>
        IF last'.toast # NoToast
        THEN imageGroups' = imageGroups
        ELSE /\ Len(imageGroups') = Len(imageGroups) + 1
             /\ SubSeq(imageGroups', 1, Len(imageGroups)) = imageGroups

C9_RangeAdd == []C9_RangeAddState /\ [][C9_RangeAddStep]_vars

C9_Witness ==
    /\ last = Handler("handleAddImageGroup", NoToast)
    /\ Len(imageGroups) >= 2
    /\ \E k \in 1..(Len(imageGroups) - 1) :
           /\ imageGroups[k].imageVersionId = imageGroups[Len(imageGroups)].imageVersionId
           /\ imageGroups[k].segmentIndexEnd + 1
                = imageGroups[Len(imageGroups)].segmentIndexStart

C9_WitnessRejected ==
    last = Handler("handleAddImageGroup", OverlapError)

\* The collection a result carries: the groups field of the insert's result
\* object, the returned array itself for the three move functions.
Returned(result) ==
    IF call.fn = "mergeImageGroupsOnInsert" THEN result.groups ELSE result

\* Every array and every object that exists before the step has the same
\* contents after it.
InputsUntouched ==
    /\ Len(heap'.arrs) >= Len(heap.arrs)
    /\ Len(heap'.objs) >= Len(heap.objs)
    /\ \A r \in 1..Len(heap.arrs) : heap'.arrs[r] = heap.arrs[r]
    /\ \A a \in 1..Len(heap.objs) : heap'.objs[a] = heap.objs[a]

\* After a call the argument array still holds the argument's value, and the
\* array returned holds the value the function computed.
ChangeOnlyInReturned ==
    /\ Deref(heap, 1) = Argument
    /\ results # <<>> =>
          /\ heap.ret \in 1..Len(heap.arrs)
          /\ Deref(heap, heap.ret) = Returned(results[Len(results)])

\* C10: no reconciliation function mutates its input.  Across any call of
\* mergeImageGroupsOnInsert, moveItemByIndex, moveItemByIndexReplace or
\* moveImageGroupsBySlot (successful, no-op or failing) the array passed in
\* and every object in it keep exactly their contents; what the call
\* changed is found only in the collection it returned.
C10_InputsNotMutated ==
    /\ []ChangeOnlyInReturned
    /\ [][InputsUntouched]_vars

\* A call has returned a new array that shares an object with its argument
\* and holds a new object at the place of one that the argument still holds
\* unchanged: an extension of a neighbouring group.
C10_Witness ==
    /\ call.fn = "mergeImageGroupsOnInsert"
    /\ Len(results) = 1
    /\ heap.ret # 1
    /\ Len(heap.arrs[heap.ret]) = Len(call.groups)
    /\ \E k \in 1..Len(call.groups) : heap.arrs[heap.ret][k] = heap.arrs[1][k]
    /\ \E k \in 1..Len(call.groups) :
          /\ heap.arrs[heap.ret][k] # heap.arrs[1][k]
          /\ heap.objs[heap.arrs[heap.ret][k]] # call.groups[k]
          /\ heap.objs[heap.arrs[1][k]] = call.groups[k]

\* The step changes the draft.
DraftChanges == <<segments, imageGroups>>' # <<segments, imageGroups>>

\* The step is an editing handler: nothing of the exchange with the backend
\* changes.
EditingStep == UNCHANGED syncVars

\* The step is the handling of the response to the load issued on mount.
InitialLoadStep == FALSE \in requests.loads /\ FALSE \notin requests'.loads

\* The step is the end of handleSave in the mounted editor, on success or on
\* failure.
SaveEnds == isMounted /\ requests.save # <<>> /\ requests'.save = <<>>

\* C11: between the load of the video and an explicit save the draft is
\* changed only by editing operations: data of the server replaces it only
\* on the initial load and on a successful handleSave; no refresh event, no
\* status poll and no render request overwrites the draft.
C11_DraftReplacedOnlyOnLoadAndSave ==
    [][DraftChanges =>
          \/ EditingStep
          \/ InitialLoadStep
          \/ (SaveEnds /\ last'.toast = "Video timeline saved")]_vars

SaveFails == SaveEnds /\ last'.toast = "Failed to save video timeline"

\* C12: when the update request fails, handleSave leaves the draft as it
\* was (so a draft that still is the one that was sent stays so), the
\* saving flag is false again and handleSave can be started again.
C12_FailedSaveKeepsDraft ==
    [][SaveFails =>
          /\ segments' = segments
          /\ imageGroups' = imageGroups
          /\ (updateRequest(segments, imageGroups) = requests.save[1]
                 => updateRequest(segments', imageGroups') = requests.save[1])
          /\ isSaving /\ ~isSaving'
          /\ isLoading' = isLoading]_vars

\* A save of a draft with a segment and an image group has failed and the
\* draft is still there, ready to be saved again.
C12_Witness ==
    /\ last = Handler("handleSave", "Failed to save video timeline")
    /\ ~isSaving
    /\ ~isLoading
    /\ requests.save = <<>>
    /\ Len(segments) >= 1
    /\ Len(imageGroups) >= 1


\* Everything of the visual drag state but the handle of the animation frame.
PreviewCleared ==
    /\ preview.draggingSegmentIndex = null
    /\ preview.draggingImageGroupIndex = null
    /\ preview.dropHint = "null"
    /\ preview.dropPreview = NoPreview
    /\ preview.pendingDropPreview = NoPreview
    /\ ~preview.isDraggingImageVersion

GestureOver ==
    /\ gesture.phase = "idle" => lastPayload = NoPayload /\ preview = InitialPreview
    /\ gesture.phase \in {"drop", "dropped"} => lastPayload = NoPayload /\ PreviewCleared

\* A step that empties the slot within a gesture (the window blur).
SlotEmptied == gesture' = gesture /\ lastPayload # NoPayload /\ lastPayload' = NoPayload

Consulted == ~(gesture.target = "image-timeline" /\ Len(segments) = 0)

\* C14: when the transfer yields nothing at the drop, the target's onDrop
\* obtains the payload the slot held at drag-start.
C14_SlotReadBeforeCleared ==
    [][(gesture.phase = "drop" /\ gesture'.phase = "dropped" /\ Consulted
            /\ ~gesture'.readable)
          => gesture'.obtained = normalizeDragPayload(gesture.stored)]_vars

\* C15: every drag-start leaves in the slot the payload it wrote to the
\* transfer, and the slot only ever changes to the payload of the gesture
\* in progress or to null.
C15_DragStartStoresPayload ==
    [][/\ (gesture.phase = "idle" /\ gesture'.phase = "dragging")
            => lastPayload' = gesture'.payload
       /\ lastPayload' # lastPayload
            => (lastPayload' = NoPayload \/ lastPayload' = gesture'.payload)]_vars

\* result is items with the element at from moved to the 0-based index at.
MovedTo(items, from, at, result) ==
    /\ Len(result) = Len(items)
    /\ at \in 0..(Len(items) - 1)
    /\ result[at + 1] = items[from + 1]
    /\ Without(result, at + 1) = Without(items, from + 1)
    /\ \E perm \in [1..Len(items) -> 1..Len(items)] :
          /\ \A j, k \in 1..Len(items) : perm[j] = perm[k] => j = k
          /\ \A k \in 1..Len(items) : result[k] = items[perm[k]]

ItemResult(fn) == call.fn = fn /\ Len(results) = 1

\* C16: moveItemByIndex returns items when from = to or from is out of
\* range; otherwise a permutation of the same length with the moved element
\* at t' = (from < t ? t - 1 : t), t = min(max(to, 0), length), the others in
\* their relative order; [a,b,c,d]: (1,3) -> [a,c,b,d], (3,1) -> [a,d,b,c],
\* (1,4) -> [a,c,d,b].
C16_MoveItemByIndex ==
    ItemResult("moveItemByIndex") =>
        LET items == call.items
            from == call.fromIndex
            to == call.toIndex
            t == Min(Max(to, 0), Len(items))
        IN  /\ IF from = to \/ from \notin 0..(Len(items) - 1)
               THEN results[1] = items
               ELSE MovedTo(items, from, IF from < t THEN t - 1 ELSE t, results[1])
            /\ items = <<"a", "b", "c", "d">> =>
                  /\ (from = 1 /\ to = 3) => results[1] = <<"a", "c", "b", "d">>
                  /\ (from = 3 /\ to = 1) => results[1] = <<"a", "d", "b", "c">>
                  /\ (from = 1 /\ to = 4) => results[1] = <<"a", "c", "d", "b">>

C16_Witness ==
    /\ ItemResult("moveItemByIndex")
    /\ call.items = <<"a", "b", "c", "d">>
    /\ call.fromIndex = 1
    /\ call.toIndex = 4
    /\ results[1] = <<"a", "c", "d", "b">>

\* C17: moveItemByIndexReplace returns items when from = to or from is out
\* of range; otherwise a permutation of the same length with the moved
\* element exactly at min(max(to, 0), length - 1), the others in their
\* relative order; [a,b,c,d]: (1,2) -> [a,c,b,d].
C17_MoveItemByIndexReplace ==
    ItemResult("moveItemByIndexReplace") =>
        LET items == call.items
            from == call.fromIndex
            to == call.toIndex
        IN  /\ IF from = to \/ from \notin 0..(Len(items) - 1)
               THEN results[1] = items
               ELSE MovedTo(items, from, Min(Max(to, 0), Len(items) - 1), results[1])
            /\ (items = <<"a", "b", "c", "d">> /\ from = 1 /\ to = 2)
                  => results[1] = <<"a", "c", "b", "d">>

C17_Witness ==
    /\ ItemResult("moveItemByIndexReplace")
    /\ call.items = <<"a", "b", "c", "d">>
    /\ call.fromIndex = 1
    /\ call.toIndex = 2
    /\ results[1] = <<"a", "c", "b", "d">>

Seg(durationSeconds) == [durationSeconds |-> durationSeconds]

\* The sum of the durations of the first count segments.
RECURSIVE DurationBefore(_, _)
DurationBefore(segs, count) ==
    IF count = 0 THEN 0
    ELSE DurationBefore(segs, count - 1) + segs[count].durationSeconds

RECURSIVE SumOfWidths(_)
SumOfWidths(offsets) ==
    IF offsets = <<>> THEN 0
    ELSE (Head(offsets).end - Head(offsets).start) + SumOfWidths(Tail(offsets))

TimelineResult(fn) == call.fn = fn /\ Len(results) = 1

\* C18: buildSegmentOffsets returns one {start, end} per segment, the first
\* start is 0, every later start is the end before it, every width is the
\* segment's duration, and the sum of the widths (the last end) is
\* getTotalDurationSeconds(segments), which is the sum of the durations and
\* 0 for the empty sequence.
C18_OffsetsChainToTotal ==
    /\ TimelineResult("buildSegmentOffsets") =>
          LET segs == call.segments
              offsets == results[1]
          IN  /\ Len(offsets) = Len(segs)
              /\ Len(offsets) > 0 => offsets[1].start = 0
              /\ \A k \in 2..Len(offsets) : offsets[k].start = offsets[k - 1].end
              /\ \A k \in 1..Len(offsets) :
                    offsets[k].end - offsets[k].start = segs[k].durationSeconds
              /\ SumOfWidths(offsets) = getTotalDurationSeconds(segs)
              /\ Len(offsets) > 0 => offsets[Len(offsets)].end = getTotalDurationSeconds(segs)
              /\ segs = <<Seg(10), Seg(5)>>
                    => offsets = <<[start |-> 0, end |-> 10], [start |-> 10, end |-> 15]>>
    /\ TimelineResult("getTotalDurationSeconds") =>
          /\ results[1] = DurationBefore(call.segments, Len(call.segments))
          /\ call.segments = <<>> => results[1] = 0

C18_Witness ==
    /\ TimelineResult("buildSegmentOffsets")
    /\ call.segments = <<Seg(10), Seg(5), Seg(8)>>
    /\ results[1] = <<[start |-> 0, end |-> 10], [start |-> 10, end |-> 15],
                      [start |-> 15, end |-> 23]>>

\* Ten times the midpoint of the segment at the 0-based index.
Midpoint(segs, index) ==
    10 * DurationBefore(segs, index) + 5 * segs[index + 1].durationSeconds

\* C19: getInsertIndexByTime returns the smallest index whose midpoint is
\* strictly greater than t, the length when there is none and 0 for the
\* empty sequence; the result is in [0, length]; a time in the first half of
\* a segment gives the segment's index and a time in its second half gives
\* the next index; [10,10]: 4 -> 0, 6 -> 1; [8,12]: 25 -> 2.
C19_InsertIndexByMidpoint ==
    TimelineResult("getInsertIndexByTime") =>
        LET segs == call.segments
            t == call.targetTenths
            index == results[1]
            Qualifies(i) == t < Midpoint(segs, i)
        IN  /\ index \in 0..Len(segs)
            /\ \A i \in 0..(index - 1) : ~Qualifies(i)
            /\ index < Len(segs) => Qualifies(index)
            /\ \A i \in 0..(Len(segs) - 1) :
                  /\ (10 * DurationBefore(segs, i) <= t /\ t < Midpoint(segs, i))
                        => index = i
                  /\ (Midpoint(segs, i) <= t /\ t < 10 * DurationBefore(segs, i + 1))
                        => index = i + 1
            /\ segs = <<Seg(10), Seg(10)>> =>
                  /\ t = 40 => index = 0
                  /\ t = 60 => index = 1
            /\ (segs = <<Seg(8), Seg(12)>> /\ t = 250) => index = 2

C19_Witness ==
    /\ TimelineResult("getInsertIndexByTime")
    /\ call.segments = <<Seg(10), Seg(10)>>
    /\ call.targetTenths = 60
    /\ results[1] = 1

\* C20: getSegmentIndexByTime returns the smallest index whose cumulative end
\* is strictly greater than t (the segment whose [start, end) holds t), the
\* last valid index when t is at or past the total and 0 for the empty
\* sequence; the result is in [0, max(0, length - 1)] for every t, negative
\* included; [10,10,5]: 0 -> 0, 9.9 -> 0, 10 -> 1, 19.9 -> 1, 25 -> 2.
C20_SegmentIndexByEnd ==
    TimelineResult("getSegmentIndexByTime") =>
        LET segs == call.segments
            t == call.targetTenths
            index == results[1]
            Holds(i) == t < 10 * DurationBefore(segs, i + 1)
        IN  /\ index \in 0..Max(0, Len(segs) - 1)
            /\ \A i \in 0..(index - 1) : ~Holds(i)
            /\ (\E i \in 0..(Len(segs) - 1) : Holds(i)) => Holds(index)
            /\ (\A i \in 0..(Len(segs) - 1) : ~Holds(i)) => index = Max(0, Len(segs) - 1)
            /\ (0 <= t /\ t < 10 * getTotalDurationSeconds(segs))
                  => /\ 10 * DurationBefore(segs, index) <= t
                     /\ t < 10 * DurationBefore(segs, index + 1)
            /\ segs = <<Seg(10), Seg(10), Seg(5)>> =>
                  /\ t = 0 => index = 0
                  /\ t = 99 => index = 0
                  /\ t = 100 => index = 1
                  /\ t = 199 => index = 1
                  /\ t = 250 => index = 2

C20_Witness ==
    /\ TimelineResult("getSegmentIndexByTime")
    /\ call.segments = <<Seg(10), Seg(10), Seg(5)>>
    /\ call.targetTenths = 250
    /\ results[1] = 2

\* The group of the call lies within the segments of the call.
InBoundsGroup ==
    /\ call.imageGroup # NoImageGroup
    /\ 0 <= call.imageGroup.segmentIndexStart
    /\ call.imageGroup.segmentIndexStart <= call.imageGroup.segmentIndexEnd
    /\ call.imageGroup.segmentIndexEnd <= Len(call.segments) - 1

\* C21: for every pair of indices, in range or not, the duration of a group
\* is the sum of the durations at max(0, start)..min(length - 1, end) (0 when
\* that range is empty) and its start is the cumulative offset of the first
\* index of the range (of the last segment when the group starts past it);
\* both are 0 for no segments or a null group; for an in-bounds group start
\* plus duration is the cumulative end of the segment at segmentIndexEnd.
C21_GroupHelpersClamp ==
    LET segs == call.segments
        group == call.imageGroup
        lo == Max(0, group.segmentIndexStart)
        hi == Min(Len(segs) - 1, group.segmentIndexEnd)
    IN  /\ TimelineResult("getImageGroupDurationSeconds") =>
              /\ (group = NoImageGroup \/ segs = <<>>) => results[1] = 0
              /\ (group # NoImageGroup /\ segs # <<>>) =>
                    results[1] = IF lo > hi THEN 0
                                 ELSE DurationBefore(segs, hi + 1) - DurationBefore(segs, lo)
              /\ InBoundsGroup =>
                    getImageGroupStartSeconds(group, segs) + results[1]
                        = DurationBefore(segs, group.segmentIndexEnd + 1)
        /\ TimelineResult("getImageGroupStartSeconds") =>
              /\ (group = NoImageGroup \/ segs = <<>>) => results[1] = 0
              /\ (group # NoImageGroup /\ segs # <<>>) =>
                    results[1] = DurationBefore(segs, Min(lo, Len(segs) - 1))
              /\ InBoundsGroup =>
                    results[1] + getImageGroupDurationSeconds(group, segs)
                        = DurationBefore(segs, group.segmentIndexEnd + 1)

C21_Witness ==
    /\ TimelineResult("getImageGroupDurationSeconds")
    /\ call.segments = <<Seg(10), Seg(12), Seg(5)>>
    /\ call.imageGroup = [segmentIndexStart |-> -2, segmentIndexEnd |-> 4]
    /\ results[1] = 27

Decoded == call.fn = "parseDragDataTransfer" /\ Len(results) >= 1

HasEntries == call.dataTransfer \notin {NoTransfer, NoGetData}

\* The positions of the colons of a text.
Colons(chars) == { k \in 1..Len(chars) : chars[k] = ":" }

FirstColon(chars) == CHOOSE k \in Colons(chars) : \A j \in Colons(chars) : k <= j

\* The text is "{type}:{id}" with a type and an id that hold no colon and
\* are not empty.
PlainForm(chars) ==
    /\ Cardinality(Colons(chars)) = 1
    /\ FirstColon(chars) \notin {1, Len(chars)}

\* The text is the beginning of an object text that is never closed.
Unclosed(tokens) ==
    /\ tokens # <<>>
    /\ tokens[1] = Punct("{")
    /\ tokens[Len(tokens)] # Punct("}")

\* C22: a structured entry that is the JSON text of a value decodes to that
\* value; with no structured entry a plain text "{type}:{id}" decodes to
\* {type, id}; the result is null, and no call fails, for a missing transfer
\* or one without getData, for two empty entries, and for a plain text with
\* an empty type or an empty id.
C22_DecodeTransfer ==
    Decoded =>
        LET dataTransfer == call.dataTransfer
            plain == dataTransfer.plain
            decoded == results[1]
        IN  /\ ~HasEntries => decoded = JsNull
            /\ HasEntries =>
                  /\ \A value \in RawObjects \cup RawScalars :
                        dataTransfer.mime = JSONstringify(value) => decoded = value
                  /\ (dataTransfer.mime = <<>> /\ PlainForm(plain)) =>
                        decoded = Obj(Str(SubSeq(plain, 1, FirstColon(plain) - 1)),
                                      Str(SubSeq(plain, FirstColon(plain) + 1, Len(plain))),
                                      Undefined)
                  /\ (dataTransfer.mime = <<>> /\ plain = <<>>) => decoded = JsNull
                  /\ (dataTransfer.mime = <<>> /\ Colons(plain) # {}
                        /\ FirstColon(plain) \in {1, Len(plain)}) => decoded = JsNull

C22_Witness ==
    /\ Decoded
    /\ call.dataTransfer = DataTransfer(<<>>, <<"image-version", ":", "iv-2">>)
    /\ results[1] = Obj(Str(<<"image-version">>), Str(<<"iv-2">>), Undefined)

\* C23: a structured entry that is present and is not well-formed JSON
\* decodes to null, whatever the plain-text entry holds.
C23_MalformedJsonIsNull ==
    (Decoded /\ HasEntries /\ Unclosed(call.dataTransfer.mime)) => results[1] = JsNull

C23_Witness ==
    /\ Decoded
    /\ call.dataTransfer = DataTransfer(<<Punct("{"), Scalar(Str(<<"type">>))>>,
                                        <<"image-version", ":", "iv-2">>)
    /\ results[1] = JsNull

\* C24: when the structured entry does not parse and the plain-text entry
\* is a well-formed "{type}:{id}", the decoding returns {type, id} from the
\* plain text.
C24_FallbackOnParseFailure ==
    (Decoded /\ HasEntries /\ Unclosed(call.dataTransfer.mime)
        /\ PlainForm(call.dataTransfer.plain))
      => results[1] = Obj(Str(SubSeq(call.dataTransfer.plain, 1,
                                     FirstColon(call.dataTransfer.plain) - 1)),
                          Str(SubSeq(call.dataTransfer.plain,
                                     FirstColon(call.dataTransfer.plain) + 1,
                                     Len(call.dataTransfer.plain))),
                          Undefined)

\* C25: the plain-text fallback splits on the first ':' only: for a type
\* without ':' and any non-empty id, the text type ":" id decodes to
\* {type, id}, the id being everything after the first ':'.
C25_PlainTextRoundTrip ==
    (Decoded /\ HasEntries /\ call.dataTransfer.mime = <<>>
        /\ Colons(call.dataTransfer.plain) # {}
        /\ FirstColon(call.dataTransfer.plain) \notin {1, Len(call.dataTransfer.plain)})
      => results[1] = Obj(Str(SubSeq(call.dataTransfer.plain, 1,
                                     FirstColon(call.dataTransfer.plain) - 1)),
                          Str(SubSeq(call.dataTransfer.plain,
                                     FirstColon(call.dataTransfer.plain) + 1,
                                     Len(call.dataTransfer.plain))),
                          Undefined)

Normalized == call.fn = "normalizeDragPayload" /\ Len(results) = 1

\* A string that is a number written in digits.
NumericString(value) ==
    /\ value.kind = "string"
    /\ value.chars # <<>>
    /\ \A k \in 1..Len(value.chars) : value.chars[k] \in Digits

WholeNumber(value) == value.kind = "number" /\ value.tenths % 10 = 0

\* The value has a known tag and the field the tag requires.
Acceptable(payload) ==
    /\ payload.kind = "object"
    /\ \/ /\ IsTag(payload.type, {"music-version", "image-version"})
          /\ payload.id.kind = "string"
       \/ /\ IsTag(payload.type, {"music-segment", "image-group"})
          /\ (WholeNumber(payload.index) \/ NumericString(payload.id))

\* C26: normalizeDragPayload returns a payload exactly for the objects with
\* a known tag and its required field (a string id for the version tags, an
\* integer index or a numeric string id for the segment and group tags),
\* null for every other value, and every segment or group payload it
\* returns carries an integer index.
C26_NormalizeAcceptsKnownOnly ==
    Normalized =>
        /\ (results[1] # JsNull) <=> Acceptable(call.payload)
        /\ (results[1] # JsNull /\ IsTag(results[1].type, {"music-segment", "image-group"}))
              => WholeNumber(results[1].index)

\* A step that sends a status poll, and one that processes its response in
\* the mounted editor.
PollIssued == ~requests.poll /\ requests'.poll

PollAnswered == requests.poll /\ ~requests'.poll /\ isMounted

RenderOutstanding == requests.render \/ video.status = "RENDERING"

\* C27: the polling interval is set exactly while the editor is mounted
\* and a render is outstanding (a render request in flight or video.status
\* RENDERING), so it is cleared on a terminal status with no render request
\* and on unmount; a poll request is only ever sent from such a state; and
\* the step that processes a poll response leaves the draft's segments and
\* image groups as they were.
C27_PollWhileRenderOutstanding ==
    /\ [](intervalId # null <=> isMounted /\ RenderOutstanding)
    /\ [][/\ PollIssued => isMounted /\ RenderOutstanding
          /\ PollAnswered => UNCHANGED <<segments, imageGroups>>]_vars

\* A poll is still in flight after the status became terminal and the
\* interval was cleared.
C27_Witness ==
    /\ isMounted
    /\ requests.poll
    /\ ~requests.render
    /\ video.status = "READY"
    /\ intervalId = null
    /\ Len(segments) > 0


\* The step in which handleSave processes a successful response.
SaveApplied == SaveEnds /\ last'.toast = "Video timeline saved"

\* C28: a successful save keeps the edits made while it was in flight: the
\* draft after the response has been applied is, field for field of the
\* update body, the draft the editor held just before, whatever editing
\* operation ran since the request was sent.
C28_SaveKeepsEditsInFlight ==
    [][SaveApplied => updateRequest(segments', imageGroups') = updateRequest(segments, imageGroups)]_vars


\* The segment positions covered by a group of the given image version.
CoveredPositions(groups, segmentsLength, imageVersionId) ==
    { position \in 0..(segmentsLength - 1) : Covered(groups, position, imageVersionId) }

VersionsOf(groups) == { groups[k].imageVersionId : k \in 1..Len(groups) }

\* C29: a relocation only permutes coverage: for every valid groupIndex and
\* every targetStart, each image version covers as many segment positions
\* in the returned collection as in the input.
C29_RelocationPermutesCoverage ==
    ValidMove =>
        \A imageVersionId \in VersionsOf(call.groups) \cup VersionsOf(results[1]) :
            Cardinality(CoveredPositions(results[1], call.segmentsLength, imageVersionId))
              = Cardinality(CoveredPositions(call.groups, call.segmentsLength, imageVersionId))


GroupLength(group) == group.segmentIndexEnd - group.segmentIndexStart + 1

\* The target starts getImageGroupTargetStart gives for a pointer over one
\* of the segments of the timeline.
EditorTargetStarts(length, segmentsLength) ==
    { Max(0, Min(Max(0, segmentsLength - length), centerIndex - (length \div 2))) :
        centerIndex \in 0..(segmentsLength - 1) }

EditorMove ==
    /\ ValidMove
    /\ call.targetStart \in
           EditorTargetStarts(GroupLength(call.groups[call.groupIndex + 1]), call.segmentsLength)

\* C30: relocating one group never splits another: for every target start
\* the editor can produce, each group other than the moved one is found in
\* the result as one range of its image version at least as long as the
\* group, and the result holds no more groups than the input.
C30_RelocationNeverSplits ==
    EditorMove =>
        /\ Len(results[1]) <= Len(call.groups)
        /\ \A k \in 1..Len(call.groups) :
               k # call.groupIndex + 1 =>
                   \E j \in 1..Len(results[1]) :
                       /\ results[1][j].imageVersionId = call.groups[k].imageVersionId
                       /\ GroupLength(results[1][j]) >= GroupLength(call.groups[k])

====
